---- MODULE Spec2Model ----
(***************************************************************************)
(* Verification model of the Hybrid Retrieval & Reasoning Engine of        *)
(* PersonalKnowledgeGraph.                                                 *)
(*                                                                         *)
(*   SearchSpec : api/files.py search_files (score fusion and ranking)     *)
(*   Spec       : services/graph_rag.py GraphRAGEngine.query, called from  *)
(*                api/query.py execute_query, with                         *)
(*                database/neo4j_client.py multi_hop_traversal             *)
(*                                                                         *)
(* Scores are Python floats in the program.  The model keeps them as exact *)
(* fixed-point numbers: every score component is an integer count of       *)
(* 1/SemScale, a fused score is a count of 1/(10*SemScale), and a          *)
(* normalized score is the exact fraction raw/max.  Floating-point         *)
(* rounding error of the additions and of the division is not modelled;    *)
(* round(x, 4) is modelled (round half to even on the exact fraction).     *)
(***************************************************************************)
EXTENDS Integers, Sequences, FiniteSets, TLC

VARIABLES
    \* ---- search_files (api/files.py) ----
    s_pc,             \* position inside search_files
    top_k,            \* request.top_k
    file_type_filter, \* request.file_type
    hits_seen,        \* iterations done of the loop over semantic_results
    entities_seen,    \* iterations done of the loop over matching_entities
    cur_doc_id,       \* doc_id of the matching entity being processed
    neighbors_seen,   \* iterations done of the loop over neighbors
    file_order,       \* key order of the dict file_scores (insertion order)
    file_scores,      \* dict doc_id -> score bundle
    file_raw_scores,  \* dict doc_id -> final_score
    max_score,        \* max_score
    ranked_files,     \* ranked_files, as returned in FileSearchResponse.files
    total_matches,    \* FileSearchResponse.total_matches
    documents,        \* what get_document answers for each candidate
    s_http,           \* HTTP status of the search request (0 while running)
    \* ---- GraphRAGEngine.query (services/graph_rag.py) ----
    q_pc,             \* position inside query / execute_query
    request,          \* QueryRequest: mode, top_k, max_hops
    vector_results,   \* vector_results
    question_entities,\* question_entities
    seeds,            \* matching_entity_ids of _graph_traversal
    trav_pending,     \* start entities whose result record is still to come
    trav_entities,    \* the set all_entities of multi_hop_traversal
    graph_context,    \* graph_context: entities and relationships
    answer,           \* answer returned by _generate_answer
    reasoning_path,   \* reasoning_path returned by _generate_answer
    response,         \* the dict query returns
    q_http,           \* HTTP status of the query request (0 while running)
    calls,            \* calls made to the collaborators during this query
    graph_failed,     \* a call of the graph client raised during this query
    all_entities,     \* all_entities of _graph_traversal: answer of get_all_entities
    trav_args,        \* arguments of the call of multi_hop_traversal
    outcomes,         \* what each collaborator did during this query
    \* ---- two queries in flight on the engine singleton ----
    c_pc,             \* position of each in-flight query inside query
    c_request,        \* arguments of each in-flight query
    c_hits,           \* vector_results, per call frame
    c_mentions,       \* question_entities, per call frame
    c_context,        \* graph_context, per call frame
    c_outcome,        \* (answer, reasoning_path), per call frame
    c_result,         \* the dict each query returned
    engine_client,    \* graph_rag_engine._client, shared by all queries
    api_key,          \* GROQ_API_KEY is set
    \* ---- upload_document and process_document_pipeline (api/upload.py) ----
    processing_status, \* the module dict processing_status: doc_id -> status
    pending,          \* background tasks added and not started yet
    u_pc,             \* position inside process_document_pipeline
    u_doc,            \* doc_id of the running pipeline
    u_chunks,         \* chunks of the running pipeline
    u_extractions,      \* extractions of the running pipeline
    merged,           \* merged of the running pipeline
    u_i,              \* iterations done of the running loop of graph writes
    u_http,           \* HTTP status of the last upload request (0 before any)
    failures,         \* per document, the steps of its pipeline that raised
    graph_documents,  \* Document nodes of the graph
    graph_nodes,      \* ids of the Entity nodes of the graph
    graph_edges,      \* relationships of the graph
    vector_index,     \* ids of the chunks held by the vector store
    uuid_next,        \* number of uuid4 values drawn so far
    \* ---- DocumentProcessor.chunk_text (services/document_processor.py) ----
    k_pc,             \* position inside chunk_text
    k_text,           \* text, after text.strip()
    chunk_size,       \* self.chunk_size
    chunk_overlap,    \* self.chunk_overlap
    k_start,          \* start
    k_end,            \* end of the last iteration
    chunk_index,      \* chunk_index
    k_chunks,         \* chunks
    k_ranges          \* (start, end) of every iteration so far

search_vars == <<s_pc, top_k, file_type_filter, hits_seen, entities_seen,
                 cur_doc_id, neighbors_seen, file_order, file_scores,
                 file_raw_scores, max_score, ranked_files, total_matches,
                 documents, s_http>>

query_vars == <<q_pc, request, vector_results, question_entities, seeds,
                trav_pending, trav_entities, graph_context, answer,
                reasoning_path, response, q_http, calls, graph_failed,
                all_entities, trav_args, outcomes>>

conc_vars == <<c_pc, c_request, c_hits, c_mentions, c_context, c_outcome,
               c_result, engine_client, api_key>>

upload_vars == <<processing_status, pending, u_pc, u_doc, u_chunks,
                 u_extractions, merged,
                 u_i, u_http, failures, graph_documents, graph_nodes,
                 graph_edges, vector_index, uuid_next>>

chunk_vars == <<k_pc, k_text, chunk_size, chunk_overlap, k_start, k_end,
                chunk_index, k_chunks, k_ranges>>

ingest_vars == <<upload_vars, chunk_vars>>

vars == <<search_vars, query_vars, conc_vars, ingest_vars>>

---------------------------------------------------------------------------
\* Bounds of the model

\* semantic_results considered per search
MaxHits == 2
\* matching_entities considered per search
MaxEntities == 1
\* neighbors considered per matching entity
MaxNeighbors == 1
\* connected entities in one result record of multi_hop_traversal
MaxConnected == 1
\* result records read from one call of multi_hop_traversal: the result
\* holds a record for the first MaxRecords start entities at most
MaxRecords == 1

---------------------------------------------------------------------------
\* Fixed-point resolution and program constants

\* one unit of score is 1/SemScale
SemScale == 10^5

\* weights of the fusion formula, in tenths (0.5, 0.3, 0.2)
W_SEMANTIC == 5
W_ENTITY == 3
W_GRAPH == 2
\* the cutoff 0.2, in tenths
ThresholdTenths == 2
\* get_entity_neighbors(entity["id"], max_depth=2)
NeighborDepth == 2
\* search_by_text(query, top_k=top_k * 3)
HitsPerTopK == 3

NoDoc == "none"
NoFilter == "nofilter"
Docs == {"d1", "d2"}
\* result["score"] = 1 - distance of vector_store.search_by_text, in 1/SemScale
HitScoreVals == {-50000, 80001, 80002}
FileTypes == {"pdf", "txt"}
Filters == {NoFilter, "pdf", "TXT"}
\* request.top_k values tried; the schema sets no lower limit
TopKs == {-1, 1, 2}

EmptyMap == [d \in {} |-> 0]

\* Answers of the graph client methods search_files calls
\* neo4j_client.get_doc_id_by_filename(source_doc): a doc id or None
DocIdAnswers == Docs \cup {NoDoc}
\* neo4j_client.get_document(doc_id) for each candidate: the type its
\* filename ends in, or NoDoc when there is no record
DocumentTables(keys) == [keys -> FileTypes \cup {NoDoc}]

---------------------------------------------------------------------------
\* Pure helpers of search_files

ZeroBundle == [semantic_score |-> 0, entity_score |-> 0, graph_score |-> 0]

\* `if doc_id not in file_scores: file_scores[doc_id] = {...zeros...}`
EnsureKey(scores, d) ==
    IF d \in DOMAIN scores THEN scores ELSE scores @@ (d :> ZeroBundle)

EnsureOrder(order, scores, d) ==
    IF d \in DOMAIN scores THEN order ELSE Append(order, d)

\* final_score = semantic*0.5 + entity*0.3 + graph*0.2, in 1/(10*SemScale)
FinalScoreWrongWeights(b) ==
    W_SEMANTIC * b.semantic_score + W_GRAPH * b.entity_score
        + W_ENTITY * b.graph_score

FinalScore(b) ==
    W_SEMANTIC * b.semantic_score + W_ENTITY * b.entity_score
        + W_GRAPH * b.graph_score

\* a maximum that looks at the first candidate only
MaxOverFirstOnly(order, raw, m) ==
    IF order = <<>> THEN m
    ELSE IF raw[Head(order)] > m THEN raw[Head(order)] ELSE m

RECURSIVE MaxOver(_, _, _)
\* the running maximum of lines 149-161, started at 0.0
MaxOver(order, raw, m) ==
    IF order = <<>> THEN m
    ELSE MaxOver(Tail(order), raw,
                 IF raw[Head(order)] > m THEN raw[Head(order)] ELSE m)

\* `normalized_score < 0.2` with normalized = raw/max if max > 0 else 0.0
BelowThresholdNever(raw, mx) == FALSE

BelowThreshold(raw, mx) ==
    IF mx > 0 THEN 10 * raw < ThresholdTenths * mx ELSE TRUE

\* normalized_score = raw_score / max_score if max_score > 0 else 0.0,
\* as the exact fraction <<numerator, denominator>>
Normalized(raw, mx) == IF mx > 0 THEN <<raw, mx>> ELSE <<0, 1>>

\* round(raw/max, 4) in units of 10^-4 (long division by two factors of 100),
\* round half to even; 0 when max = 0
RoundNormalized(raw, mx) ==
    IF mx > 0 THEN
        LET a  == raw * 100
            q1 == a \div mx
            r1 == a % mx
            b  == r1 * 100
            q2 == b \div mx
            r2 == b % mx
            q  == q1 * 100 + q2
        IN  IF 2 * r2 < mx THEN q
            ELSE IF 2 * r2 > mx THEN q + 1
            ELSE IF q % 2 = 0 THEN q ELSE q + 1
    ELSE 0

\* filename.split(".")[-1].lower() yields one of FileTypes here;
\* file_type_filter.lower()
LowerType(t) == IF t = "TXT" THEN "txt" ELSE IF t = "PDF" THEN "pdf" ELSE t

RECURSIVE InsertDesc(_, _)
\* x goes after every element whose key is >= its own: equal keys keep order
InsertDesc(sorted, x) ==
    IF sorted = <<>> THEN <<x>>
    ELSE IF Head(sorted).relevance_score >= x.relevance_score
         THEN <<Head(sorted)>> \o InsertDesc(Tail(sorted), x)
         ELSE <<x>> \o sorted

RECURSIVE InsertDescUnstable(_, _)
InsertDescUnstable(sorted, x) ==
    IF sorted = <<>> THEN <<x>>
    ELSE IF Head(sorted).relevance_score > x.relevance_score
         THEN <<Head(sorted)>> \o InsertDescUnstable(Tail(sorted), x)
         ELSE <<x>> \o sorted

RECURSIVE SortFrom(_, _)
SortFrom(acc, rest) ==
    IF rest = <<>> THEN acc
    ELSE SortFrom(InsertDesc(acc, Head(rest)), Tail(rest))

RECURSIVE SortFromUnstable(_, _)
SortFromUnstable(acc, rest) ==
    IF rest = <<>> THEN acc
    ELSE SortFromUnstable(InsertDescUnstable(acc, Head(rest)), Tail(rest))

\* a sort that lets equal keys swap places
SortByRelevanceUnstable(files) == SortFromUnstable(<<>>, files)

\* ranked_files.sort(key=lambda x: x.relevance_score, reverse=True)
SortByRelevance(files) == SortFrom(<<>>, files)

\* ranked_files[:top_k]
Prefix(s, k) ==
    IF k >= Len(s) THEN s
    ELSE IF k >= 0 THEN SubSeq(s, 1, k)
    ELSE SubSeq(s, 1, IF Len(s) + k > 0 THEN Len(s) + k ELSE 0)

RECURSIVE RankLoop(_, _, _, _, _)
\* the loop of lines 163-202 over file_scores.items()
\* table[d] is the file type of get_document(d), or NoDoc when there is no record
RankLoop(order, raw, mx, table, filter) ==
    IF order = <<>> THEN <<>>
    ELSE
        LET d    == Head(order)
            rest == RankLoop(Tail(order), raw, mx, table, filter)
        IN  IF table[d] = NoDoc THEN rest
            ELSE IF filter # NoFilter /\ table[d] # LowerType(filter) THEN rest
            ELSE IF BelowThreshold(raw[d], mx) THEN rest
            ELSE <<[file_id         |-> d,
                    file_type       |-> table[d],
                    relevance_score |-> RoundNormalized(raw[d], mx),
                    norm_num        |-> Normalized(raw[d], mx)[1],
                    norm_den        |-> Normalized(raw[d], mx)[2]]>> \o rest

\* a result list that is carried over from the previous request
InitialRankedFilesKept(previous) == previous

\* `ranked_files = []`, line 163: the list is a local that starts empty
InitialRankedFiles(previous) == <<>>

---------------------------------------------------------------------------
\* The query engine before a request

NoRequest == [question |-> <<>>, mode |-> "none", top_k |-> 0, max_hops |-> 0]
EmptySubgraph == [entities |-> <<>>, relationships |-> <<>>]
NoCalls == [search_by_text |-> 0, extract_llm |-> 0, graph_traversal |-> 0,
            get_all_entities |-> 0, multi_hop_traversal |-> 0,
            generate_llm |-> 0]
\* no call of multi_hop_traversal made
NoArgs == [entity_ids |-> <<>>, max_hops |-> 0]
NoOutcomes == [vector |-> "none", extract |-> "none", synth |-> "none"]
NoResponse == [answer |-> "none"]

QueryIdleValues ==
    /\ request = NoRequest
    /\ vector_results = <<>>
    /\ question_entities = <<>>
    /\ seeds = <<>>
    /\ trav_pending = <<>>
    /\ trav_entities = {}
    /\ graph_context = EmptySubgraph
    /\ answer = "none"
    /\ reasoning_path = <<>>
    /\ response = NoResponse
    /\ q_http = 0
    /\ calls = NoCalls
    /\ graph_failed = FALSE
    /\ all_entities = <<>>
    /\ trav_args = NoArgs
    /\ outcomes = NoOutcomes

\* the queries in flight at the same time on the engine
Queriers == {1, 2}

ConcIdleValues ==
    /\ c_pc = [p \in Queriers |-> "idle"]
    /\ c_request = [p \in Queriers |-> NoRequest]
    /\ c_hits = [f \in Queriers |-> <<>>]
    /\ c_mentions = [f \in Queriers |-> <<>>]
    /\ c_context = [f \in Queriers |-> EmptySubgraph]
    /\ c_outcome = [f \in Queriers |-> [answer |-> "none", reasoning_path |-> <<>>]]
    /\ c_result = [p \in Queriers |-> NoResponse]
    /\ engine_client = "none"

\* the doc_ids save_file draws, in the order it draws them
DocOrder == <<"d1", "d2">>
DocIds == {DocOrder[i] : i \in DOMAIN DocOrder}

\* a doc_id that is not a key of processing_status
NoStatus == [stage |-> "none", progress |-> 0, details |-> <<>>]
\* merged before merge_extractions has returned
NoMerged == [entities |-> <<>>, relationships |-> <<>>,
             entity_count |-> 0, relationship_count |-> 0]

UploadIdleValues ==
    /\ processing_status = [d \in DocIds |-> NoStatus]
    /\ pending = <<>>
    /\ u_pc = "idle"
    /\ u_doc = "none"
    /\ u_chunks = <<>>
    /\ u_extractions = <<>>
    /\ merged = NoMerged
    /\ u_i = 0
    /\ u_http = 0
    /\ failures = [d \in DocIds |-> {}]
    /\ graph_documents = {}
    /\ graph_nodes = {}
    /\ graph_edges = {}
    /\ vector_index = {}
    /\ uuid_next = 0

\* document_processor = DocumentProcessor(), with no chunk_text call running
ChunkIdleValues ==
    /\ k_pc = "idle"
    /\ k_text = <<>>
    /\ chunk_size = 500
    /\ chunk_overlap = 100
    /\ k_start = 0
    /\ k_end = 0
    /\ chunk_index = 0
    /\ k_chunks = <<>>
    /\ k_ranges = <<>>

IngestIdleValues == UploadIdleValues /\ ChunkIdleValues

---------------------------------------------------------------------------
\* search_files as a state machine

SearchIdleValues ==
    /\ top_k = 0
    /\ file_type_filter = NoFilter
    /\ hits_seen = 0
    /\ entities_seen = 0
    /\ cur_doc_id = NoDoc
    /\ neighbors_seen = 0
    /\ file_order = <<>>
    /\ file_scores = EmptyMap
    /\ file_raw_scores = EmptyMap
    /\ max_score = 0
    /\ ranked_files = <<>>
    /\ total_matches = 0
    /\ documents = EmptyMap
    /\ s_http = 0

SearchInit ==
    /\ s_pc = "idle" /\ SearchIdleValues
    /\ q_pc = "idle" /\ QueryIdleValues
    /\ ConcIdleValues /\ api_key = FALSE
    /\ IngestIdleValues

\* lines 66-79: the request is read, the three dicts start empty
SearchStart ==
    /\ s_pc = "idle"
    /\ \E k \in TopKs : top_k' = k
    /\ file_type_filter' = NoFilter
    /\ s_pc' = "semantic"
    /\ hits_seen' = 0
    /\ entities_seen' = 0
    /\ cur_doc_id' = NoDoc
    /\ neighbors_seen' = 0
    /\ file_order' = <<>>
    /\ file_scores' = EmptyMap
    /\ file_raw_scores' = EmptyMap
    /\ max_score' = 0
    /\ ranked_files' = <<>>
    /\ total_matches' = 0
    /\ documents' = EmptyMap
    /\ s_http' = 0
    /\ UNCHANGED <<query_vars, conc_vars, ingest_vars>>

\* lines 82-105: one iteration of the loop over semantic_results
ProcessSemanticResult ==
    /\ s_pc = "semantic"
    /\ hits_seen < MaxHits
    /\ hits_seen < HitsPerTopK * top_k
    /\ hits_seen' = hits_seen + 1
    /\ \E d \in Docs \cup {NoDoc}, score \in HitScoreVals :
          IF d = NoDoc
          THEN UNCHANGED <<file_order, file_scores>>
          ELSE /\ file_order' = EnsureOrder(file_order, file_scores, d)
               /\ file_scores' =
                    [EnsureKey(file_scores, d) EXCEPT
                        ![d].semantic_score = @ + score]
    /\ UNCHANGED <<s_pc, top_k, file_type_filter, entities_seen, cur_doc_id,
                   neighbors_seen, file_raw_scores, max_score, ranked_files,
                   total_matches, s_http>>
    /\ UNCHANGED documents
    /\ UNCHANGED <<query_vars, conc_vars, ingest_vars>>

\* the loop over semantic_results ends
SemanticDone ==
    /\ s_pc = "semantic"
    /\ s_pc' = "entities"
    /\ UNCHANGED <<top_k, file_type_filter, hits_seen, entities_seen,
                   cur_doc_id, neighbors_seen, file_order, file_scores,
                   file_raw_scores, max_score, ranked_files, total_matches,
                   s_http>>
    /\ UNCHANGED documents
    /\ UNCHANGED <<query_vars, conc_vars, ingest_vars>>

\* lines 108-126: one matching entity, up to the call of get_entity_neighbors
ProcessEntity ==
    /\ s_pc = "entities"
    /\ entities_seen < MaxEntities
    /\ entities_seen' = entities_seen + 1
    /\ neighbors_seen' = 0
    /\ \E d \in DocIdAnswers :
          /\ cur_doc_id' = d
          /\ IF d = NoDoc
             THEN UNCHANGED <<file_order, file_scores>>
             ELSE /\ file_order' = EnsureOrder(file_order, file_scores, d)
                  /\ file_scores' =
                       [EnsureKey(file_scores, d) EXCEPT
                           ![d].entity_score = @ + SemScale]
    /\ UNCHANGED <<s_pc, top_k, file_type_filter, hits_seen, file_raw_scores,
                   max_score, ranked_files, total_matches, s_http>>
    /\ UNCHANGED documents
    /\ UNCHANGED <<query_vars, conc_vars, ingest_vars>>

\* lines 127-145: one neighbor of the current matching entity
ProcessNeighbor ==
    /\ s_pc = "entities"
    /\ cur_doc_id # NoDoc
    /\ neighbors_seen < MaxNeighbors
    /\ neighbors_seen' = neighbors_seen + 1
    /\ \E nd \in DocIdAnswers, distance \in 1..NeighborDepth :
          IF nd = NoDoc
          THEN UNCHANGED <<file_order, file_scores>>
          ELSE /\ file_order' = EnsureOrder(file_order, file_scores, nd)
               /\ file_scores' =
                    [EnsureKey(file_scores, nd) EXCEPT
                        ![nd].graph_score = @ + (SemScale \div distance)]
    /\ UNCHANGED <<s_pc, top_k, file_type_filter, hits_seen, entities_seen,
                   cur_doc_id, file_raw_scores, max_score, ranked_files,
                   total_matches, s_http>>
    /\ UNCHANGED documents
    /\ UNCHANGED <<query_vars, conc_vars, ingest_vars>>

\* the loop over matching_entities ends
EntitiesDone ==
    /\ s_pc = "entities"
    /\ s_pc' = "score"
    /\ UNCHANGED <<top_k, file_type_filter, hits_seen, entities_seen,
                   cur_doc_id, neighbors_seen, file_order, file_scores,
                   file_raw_scores, max_score, ranked_files, total_matches,
                   s_http>>
    /\ UNCHANGED documents
    /\ UNCHANGED <<query_vars, conc_vars, ingest_vars>>

\* lines 148-161: final scores and their maximum
ComputeFinalScores ==
    /\ s_pc = "score"
    /\ file_raw_scores' = [d \in DOMAIN file_scores |-> FinalScore(file_scores[d])]
    /\ max_score' = MaxOver(file_order, file_raw_scores', 0)
    /\ s_pc' = "rank"
    /\ UNCHANGED <<top_k, file_type_filter, hits_seen, entities_seen,
                   cur_doc_id, neighbors_seen, file_order, file_scores,
                   ranked_files, total_matches, s_http>>
    /\ UNCHANGED documents
    /\ UNCHANGED <<query_vars, conc_vars, ingest_vars>>

\* lines 163-215: normalize, filter, cut off, sort, truncate, respond
RankFiles ==
    /\ s_pc = "rank"
    /\ \E table \in DocumentTables(DOMAIN file_scores),
          f \in Filters :
          /\ file_type_filter' = f
          /\ documents' = table
          /\ ranked_files' =
                Prefix(SortByRelevance(
                          InitialRankedFiles(ranked_files)
                             \o RankLoop(file_order, file_raw_scores,
                                         max_score, table, f)),
                       top_k)
    /\ total_matches' = Len(ranked_files')
    /\ s_http' = 200
    /\ s_pc' = "done"
    /\ UNCHANGED <<top_k, hits_seen, entities_seen, cur_doc_id,
                   neighbors_seen, file_order, file_scores, file_raw_scores,
                   max_score>>
    /\ UNCHANGED <<query_vars, conc_vars, ingest_vars>>

\* lines 147-215 once more: the same request is served again while the stores
\* are unchanged, so the score bundles, their insertion order and the answers
\* of get_document are those of the first run
RankAgain ==
    /\ s_pc = "done"
    /\ file_raw_scores' = [d \in DOMAIN file_scores |-> FinalScore(file_scores[d])]
    /\ max_score' = MaxOver(file_order, file_raw_scores', 0)
    /\ ranked_files' =
          Prefix(SortByRelevance(
                    InitialRankedFiles(ranked_files)
                       \o RankLoop(file_order, file_raw_scores', max_score',
                                   documents, file_type_filter)),
                 top_k)
    /\ total_matches' = Len(ranked_files')
    /\ s_http' = 200
    /\ s_pc' = "again"
    /\ UNCHANGED <<top_k, file_type_filter, hits_seen, entities_seen,
                   cur_doc_id, neighbors_seen, file_order, file_scores,
                   documents>>
    /\ UNCHANGED <<query_vars, conc_vars, ingest_vars>>

\* lines 217-220: a call of the graph client raises inside the try block
SearchProviderRaises ==
    /\ s_pc \in {"entities", "rank"}
    /\ s_pc' = "failed"
    /\ s_http' = 500
    /\ UNCHANGED <<top_k, file_type_filter, hits_seen, entities_seen,
                   cur_doc_id, neighbors_seen, file_order, file_scores,
                   file_raw_scores, max_score, ranked_files, total_matches>>
    /\ UNCHANGED documents
    /\ UNCHANGED <<query_vars, conc_vars, ingest_vars>>

SearchNext ==
    \/ SearchStart
    \/ ProcessSemanticResult
    \/ SemanticDone
    \/ ProcessEntity
    \/ ProcessNeighbor
    \/ EntitiesDone
    \/ ComputeFinalScores
    \/ RankFiles
    \/ RankAgain
    \/ SearchProviderRaises

SearchSpec == SearchInit /\ [][SearchNext]_vars

---------------------------------------------------------------------------
\* Strings the entity resolver compares, as sequences of characters

LowerChar(c) == CASE c = "A" -> "a" [] c = "B" -> "b" [] OTHER -> c

\* str.lower()
Lower(str) == [i \in 1..Len(str) |-> LowerChar(str[i])]

\* Python's `needle in hay` on strings
Contains(hay, needle) ==
    \E k \in 0..(Len(hay) - Len(needle)) :
       SubSeq(hay, k + 1, k + Len(needle)) = needle

---------------------------------------------------------------------------
\* What the collaborators of the query engine can answer

Modes == {"vector", "graph", "hybrid"}
QueryTopKs == {1, 3}
MaxHopsVals == {2, 7}
\* matching_entity_ids[:10]
SeedCap == 10
\* entities[:5] of the graph traversal step
StepEntityCap == 5

\* the chunks of the vector store, nearest first; score in hundredths
CorpusHits ==
    << [id |-> "c1", text |-> <<"a", "l">>, score |-> 90],
       [id |-> "c2", text |-> <<"z">>,      score |-> 70],
       [id |-> "c3", text |-> <<>>,         score |-> 40] >>

\* what _extract_question_entities can return
MentionLists ==
    { <<>>,
      << <<"A", "l">> >>,
      << <<"z">> >>,
      << <<"o">>, <<"A", "l", "x">> >> }

EntityIds == {"e1", "e2"}
NodeNames == { <<"A", "l">>, <<"B", "o">> }
\* request.question, as the words of question.split()
Questions ==
    { << <<"w", "h", "o">>, <<"A", "l", "x", "?">> >>,
      << <<"B", "o">>, <<"z", "z", "z">> >> }
\* an element of the parsed 'entities' value that is not a str
NonString == <<"{}">>
\* 'entities' values of a completion that is a JSON object but does not hold
\* an array of strings
MalformedLists == { <<NonString>> }

\* an entity node as the driver returns it
Records == [id : EntityIds, name : NodeNames]
\* the Entity nodes of the graph
StoredEntities ==
    << [id |-> "e1", name |-> <<"A", "l">>],
       [id |-> "e2", name |-> <<"B", "o">>] >>
\* answers of get_all_entities(limit=500)
\* a graph with more Entity nodes than the traversal starts from
ManyIds == <<"e1", "e2", "e3", "e4", "e5", "e6", "e7", "e8", "e9", "e10",
             "e11", "e12">>
ManyEntities ==
    [i \in 1..Len(ManyIds) |->
        [id |-> ManyIds[i],
         name |-> IF i = 2 THEN <<"B", "o">> ELSE <<"A", "l">>]]
AllEntitiesAnswers == {<<>>, StoredEntities, ManyEntities}
\* collect(DISTINCT connected) of one result record
ConnectedSets == {c \in SUBSET Records : Cardinality(c) <= MaxConnected}

---------------------------------------------------------------------------
\* Pure helpers of the query engine

Min(a, b) == IF a < b THEN a ELSE b

\* a dispatch that never runs the similarity stage
VectorStageEnabledNever(mode) == FALSE

\* `mode in ["vector", "hybrid"]`, line 84
VectorStageEnabled(mode) == mode \in {"vector", "hybrid"}

\* a dispatch that runs the graph stage in every mode
GraphStageEnabledAlways(mode) == TRUE

\* a dispatch that runs the graph stage in the modes of the similarity stage
GraphStageEnabledLikeVector(mode) == mode \in {"vector", "hybrid"}

\* `mode in ["graph", "hybrid"]`, line 92
GraphStageEnabled(mode) == mode \in {"graph", "hybrid"}

\* characters re.sub(r'[^\w]', '', word) removes
Punctuation == {"?"}
\* characters for which str.isupper() holds
UpperChars == {"A", "B"}
QuestionWords ==
    { <<"w", "h", "o">>, <<"w", "h", "a", "t">>, <<"w", "h", "e", "r", "e">>,
      <<"w", "h", "e", "n">>, <<"h", "o", "w">> }

\* clean = re.sub(r'[^\w]', '', word), line 166
Clean(word) ==
    LET IsWordChar(c) == c \notin Punctuation
    IN  SelectSeq(word, IsWordChar)

\* the except branch of _extract_question_entities, lines 160-170
FallbackEntities(question) ==
    LET Keeps(clean) ==
            /\ clean # <<>>
            /\ (clean[1] \in UpperChars \/ clean \in QuestionWords)
            /\ Len(clean) > 2
    IN  SelectSeq([i \in 1..Len(question) |-> Clean(question[i])], Keeps)

\* entity_name.lower() of line 185 needs a str
IsStr(m) == m # NonString

\* a call that hands over every matching id
StartEntitiesUncapped(ids) == ids

\* matching_entity_ids[:10], line 208
StartEntities(ids) == Prefix(ids, SeedCap)

\* a term set that keeps, when there are hits, only the mentions found in them
EntitiesToExploreFromHits(mentions, hits) ==
    IF hits = <<>>
    THEN {Lower(mentions[i]) : i \in 1..Len(mentions)}
    ELSE {Lower(mentions[i]) : i \in
            {j \in 1..Len(mentions) :
               \E h \in 1..Len(hits) :
                  Contains(Lower(hits[h].text), Lower(mentions[j]))}}

\* lines 181-192 of _graph_traversal: the set entities_to_explore
EntitiesToExplore(mentions, hits) ==
    {Lower(mentions[i]) : i \in 1..Len(mentions)}
       \cup {Lower(mentions[i]) : i \in
               {j \in 1..Len(mentions) :
                  \E h \in 1..Len(hits) :
                     Contains(Lower(hits[h].text), Lower(mentions[j]))}}

\* a search that returns the chunks it had built when the store raised
VectorSearchOutcomeKeepsPartial(ok, chunks) == chunks

\* search_by_text, vector_store.py lines 163-183: the chunks built from the
\* store's answer, or [] when the embedding or the store raised
VectorSearchOutcome(ok, chunks) == IF ok THEN chunks ELSE <<>>

\* a match that only looks for the search term inside the entity name
MatchingEntityIdsOneWay(all, terms) ==
    LET Matches(e) == \E t \in terms : Contains(Lower(e.name), t)
        sel == SelectSeq(all, Matches)
    IN  [i \in 1..Len(sel) |-> sel[i].id]

\* lines 196-203 of _graph_traversal: matching_entity_ids
MatchingEntityIds(all, terms) ==
    LET Matches(e) ==
            \E t \in terms :
               Contains(Lower(e.name), t) \/ Contains(t, Lower(e.name))
        sel == SelectSeq(all, Matches)
    IN  [i \in 1..Len(sel) |-> sel[i].id]

\* [dict(e) for e in all_entities]: a set is listed in some order
Listings(S) ==
    {f \in [1..Cardinality(S) -> S] :
        \A i, j \in 1..Cardinality(S) : i # j => f[i] # f[j]}

\* a reasoning step
Step(n, what, involved, ev) ==
    [step_number |-> n, description |-> what, entities_involved |-> involved,
     relationships_used |-> <<>>, evidence |-> ev]

EntityNames(entities) == [i \in 1..Len(entities) |-> entities[i].name]

\* a builder that numbers the graph step like the semantic step
BuildReasoningPathNoIncrement(hits, ctx) ==
    LET entities == ctx.entities
        s1 == <<Step(1, "question", <<>>, "question")>>
        s2 == IF hits # <<>>
              THEN <<Step(2, "semantic", <<>>, hits[1].score)>> ELSE <<>>
        n3 == 2
        s3 == IF entities # <<>>
              THEN <<Step(n3, "graph",
                          EntityNames(Prefix(entities, StepEntityCap)),
                          Len(entities))>>
              ELSE <<>>
        n4 == IF entities # <<>> THEN n3 + 1 ELSE n3
    IN  s1 \o s2 \o s3 \o <<Step(n4, "synthesis", <<>>, "answer")>>

\* a builder that reports the semantic step also for an empty hit list
BuildReasoningPathAlwaysSemantic(hits, ctx) ==
    LET entities == ctx.entities
        s1 == <<Step(1, "question", <<>>, "question")>>
        s2 == <<Step(2, "semantic", <<>>, Len(hits))>>
        s3 == IF entities # <<>>
              THEN <<Step(3, "graph",
                          EntityNames(Prefix(entities, StepEntityCap)),
                          Len(entities))>>
              ELSE <<>>
        n4 == IF entities # <<>> THEN 4 ELSE 3
    IN  s1 \o s2 \o s3 \o <<Step(n4, "synthesis", <<>>, "answer")>>

\* _build_reasoning_path, lines 283-337
BuildReasoningPath(hits, ctx) ==
    LET entities == ctx.entities
        s1 == <<Step(1, "question", <<>>, "question")>>
        n2 == 1 + 1
        s2 == IF hits # <<>>
              THEN <<Step(n2, "semantic", <<>>, hits[1].score)>> ELSE <<>>
        n3 == IF hits # <<>> THEN n2 + 1 ELSE n2
        s3 == IF entities # <<>>
              THEN <<Step(n3, "graph",
                          EntityNames(Prefix(entities, StepEntityCap)),
                          Len(entities))>>
              ELSE <<>>
        n4 == IF entities # <<>> THEN n3 + 1 ELSE n3
    IN  s1 \o s2 \o s3 \o <<Step(n4, "synthesis", <<>>, "answer")>>

\* a failure branch that still reports the steps built so far
GenerateAnswerOutcomeKeepsPath(llm_ok, hits, ctx) ==
    [answer |-> IF llm_ok THEN "answer" ELSE "unable",
     reasoning_path |-> BuildReasoningPath(hits, ctx)]

\* the try/except of _generate_answer, lines 257-281
GenerateAnswerOutcome(llm_ok, hits, ctx) ==
    IF llm_ok
    THEN [answer |-> "answer", reasoning_path |-> BuildReasoningPath(hits, ctx)]
    ELSE [answer |-> "unable", reasoning_path |-> <<>>]

\* _format_evidence, lines 339-352
FormatEvidence(hits) ==
    [i \in 1..Len(hits) |->
        [chunk_text |-> hits[i].text, relevance_score |-> hits[i].score]]

\* _format_graph_context, lines 354-390
FormatGraphContext(ctx) ==
    [nodes |-> [i \in 1..Len(ctx.entities) |->
                  [id |-> ctx.entities[i].id, name |-> ctx.entities[i].name]],
     edges |-> [i \in 1..Len(ctx.relationships) |->
                  [id |-> ctx.relationships[i].id]]]

\* the dict returned by query, lines 110-118
QueryResult(question, mode, ans, path, hits, ctx) ==
    [question |-> question, answer |-> ans, reasoning_path |-> path,
     evidence |-> FormatEvidence(hits),
     graph_context |-> FormatGraphContext(ctx), mode_used |-> mode,
     processing_time_ms |-> "elapsed"]

\* the guard of line 206 left out
TraversalNeededAlways(ids) == TRUE

\* `if matching_entity_ids:`, line 206
TraversalNeeded(ids) == ids # <<>>

---------------------------------------------------------------------------
\* execute_query and GraphRAGEngine.query as a state machine

QueryInit ==
    /\ q_pc = "idle" /\ QueryIdleValues
    /\ s_pc = "idle" /\ SearchIdleValues
    /\ ConcIdleValues /\ api_key = FALSE
    /\ IngestIdleValues

\* query.py lines 36-43: a request arrives and query is entered
QueryStart ==
    /\ q_pc = "idle"
    /\ \E q \in Questions, m \in Modes, k \in QueryTopKs, h \in MaxHopsVals :
          request' = [question |-> q, mode |-> m, top_k |-> k, max_hops |-> h]
    /\ q_pc' = "vector"
    /\ vector_results' = <<>>
    /\ question_entities' = <<>>
    /\ seeds' = <<>>
    /\ trav_pending' = <<>>
    /\ trav_entities' = {}
    /\ graph_context' = EmptySubgraph
    /\ answer' = "none"
    /\ reasoning_path' = <<>>
    /\ response' = NoResponse
    /\ q_http' = 0
    /\ calls' = NoCalls
    /\ graph_failed' = FALSE
    /\ all_entities' = <<>>
    /\ trav_args' = NoArgs
    /\ outcomes' = NoOutcomes
    /\ UNCHANGED <<search_vars, conc_vars, ingest_vars>>

\* lines 83-85 and _vector_search: the store answers with its nearest chunks
VectorSearch ==
    /\ q_pc = "vector"
    /\ VectorStageEnabled(request.mode)
    /\ \E n \in 0..Min(request.top_k, Len(CorpusHits)) :
          vector_results' = VectorSearchOutcome(TRUE, SubSeq(CorpusHits, 1, n))
    /\ calls' = [calls EXCEPT !.search_by_text = @ + 1]
    /\ outcomes' = [outcomes EXCEPT !.vector = "ok"]
    /\ q_pc' = "extract"
    /\ UNCHANGED <<request, question_entities, seeds, trav_pending,
                   trav_entities, graph_context, answer, reasoning_path,
                   response, q_http, graph_failed>>
    /\ UNCHANGED <<all_entities, trav_args>>
    /\ UNCHANGED <<search_vars, conc_vars, ingest_vars>>

\* the embedding or the collection query raises: search_by_text catches it
\* and returns [] (vector_store.py lines 181-183)
VectorSearchFails ==
    /\ q_pc = "vector"
    /\ VectorStageEnabled(request.mode)
    /\ \E n \in 0..Min(request.top_k, Len(CorpusHits)) :
          vector_results' = VectorSearchOutcome(FALSE, SubSeq(CorpusHits, 1, n))
    /\ calls' = [calls EXCEPT !.search_by_text = @ + 1]
    /\ outcomes' = [outcomes EXCEPT !.vector = "failed"]
    /\ q_pc' = "extract"
    /\ UNCHANGED <<request, question_entities, seeds, trav_pending,
                   trav_entities, graph_context, answer, reasoning_path,
                   response, q_http, graph_failed>>
    /\ UNCHANGED <<all_entities, trav_args>>
    /\ UNCHANGED <<search_vars, conc_vars, ingest_vars>>

\* line 84 false: graph mode makes no similarity search
VectorSkipped ==
    /\ q_pc = "vector"
    /\ ~VectorStageEnabled(request.mode)
    /\ q_pc' = "extract"
    /\ UNCHANGED <<request, vector_results, question_entities, seeds,
                   trav_pending, trav_entities, graph_context, answer,
                   reasoning_path, response, q_http, calls, graph_failed>>
    /\ UNCHANGED <<all_entities, trav_args, outcomes>>
    /\ UNCHANGED <<search_vars, conc_vars, ingest_vars>>

\* line 88 and _extract_question_entities lines 139-158: the completion is
\* made, its content is a JSON object, and result.get("entities", []) is
\* returned whatever it holds
ExtractQuestionEntities ==
    /\ q_pc = "extract"
    /\ \E ents \in MentionLists \cup MalformedLists :
          /\ question_entities' = ents
          /\ outcomes' = [outcomes EXCEPT
                             !.extract = IF ents \in MalformedLists
                                         THEN "wrong_entities" ELSE "ok"]
    /\ calls' = [calls EXCEPT !.extract_llm = @ + 1]
    /\ q_pc' = "graph"
    /\ UNCHANGED <<request, vector_results, seeds, trav_pending,
                   trav_entities, graph_context, answer, reasoning_path,
                   response, q_http, graph_failed>>
    /\ UNCHANGED <<all_entities, trav_args>>
    /\ UNCHANGED <<search_vars, conc_vars, ingest_vars>>

\* _extract_question_entities lines 160-170: the client is missing, the
\* completion raises, its content is not JSON, or the JSON is not an object
\* (result.get raises); the capitalized-word fallback is returned
ExtractFallback ==
    /\ q_pc = "extract"
    /\ \E why \in {"no_client", "raised", "not_json", "not_object"} :
          /\ outcomes' = [outcomes EXCEPT !.extract = why]
          /\ calls' = [calls EXCEPT
                          !.extract_llm = IF why = "no_client" THEN @ ELSE @ + 1]
    /\ question_entities' = FallbackEntities(request.question)
    /\ q_pc' = "graph"
    /\ UNCHANGED <<request, vector_results, seeds, trav_pending,
                   trav_entities, graph_context, answer, reasoning_path,
                   response, q_http, graph_failed>>
    /\ UNCHANGED <<all_entities, trav_args>>
    /\ UNCHANGED <<search_vars, conc_vars, ingest_vars>>

\* line 92 false: vector mode keeps the empty graph_context of line 91
GraphSkipped ==
    /\ q_pc = "graph"
    /\ ~GraphStageEnabled(request.mode)
    /\ graph_context' = EmptySubgraph
    /\ q_pc' = "synth"
    /\ UNCHANGED <<request, vector_results, question_entities, seeds,
                   trav_pending, trav_entities, answer, reasoning_path,
                   response, q_http, calls, graph_failed>>
    /\ UNCHANGED <<all_entities, trav_args, outcomes>>
    /\ UNCHANGED <<search_vars, conc_vars, ingest_vars>>

\* _graph_traversal lines 181-213: get_all_entities, the match, and either the
\* call of multi_hop_traversal or the empty subgraph
ResolveSeeds ==
    /\ q_pc = "graph"
    /\ GraphStageEnabled(request.mode)
    /\ \A i \in 1..Len(question_entities) : IsStr(question_entities[i])
    /\ \E all \in AllEntitiesAnswers :
          /\ all_entities' = all
          /\ seeds' = MatchingEntityIds(
                         all, EntitiesToExplore(question_entities,
                                                vector_results))
    /\ IF TraversalNeeded(seeds')
       THEN /\ calls' = [calls EXCEPT !.graph_traversal = @ + 1,
                                      !.get_all_entities = @ + 1,
                                      !.multi_hop_traversal = @ + 1]
            /\ trav_args' = [entity_ids |-> StartEntities(seeds'),
                             max_hops |-> request.max_hops]
            /\ trav_pending' = StartEntities(seeds')
            /\ trav_entities' = {}
            /\ q_pc' = "traverse"
            /\ UNCHANGED graph_context
       ELSE /\ calls' = [calls EXCEPT !.graph_traversal = @ + 1,
                                      !.get_all_entities = @ + 1]
            /\ graph_context' = EmptySubgraph
            /\ q_pc' = "synth"
            /\ UNCHANGED <<trav_pending, trav_entities, trav_args>>
    /\ UNCHANGED <<request, vector_results, question_entities, answer,
                   reasoning_path, response, q_http, graph_failed>>
    /\ UNCHANGED outcomes
    /\ UNCHANGED <<search_vars, conc_vars, ingest_vars>>

\* _graph_traversal line 185 (or 191): an element of question_entities is not
\* a str, entity_name.lower() raises, and nothing up to execute_query catches
\* it (query.py lines 68-69)
MentionLowerRaises ==
    /\ q_pc = "graph"
    /\ GraphStageEnabled(request.mode)
    /\ \E i \in 1..Len(question_entities) : ~IsStr(question_entities[i])
    /\ calls' = [calls EXCEPT !.graph_traversal = @ + 1]
    /\ q_http' = 500
    /\ q_pc' = "raised"
    /\ UNCHANGED <<request, vector_results, question_entities, seeds,
                   trav_pending, trav_entities, graph_context, answer,
                   reasoning_path, response, graph_failed>>
    /\ UNCHANGED <<all_entities, trav_args, outcomes>>
    /\ UNCHANGED <<search_vars, conc_vars, ingest_vars>>

\* multi_hop_traversal lines 286-291: one result record, the start node of a
\* seed and its connected nodes, is added to the set all_entities
TraverseRecord ==
    /\ q_pc = "traverse"
    /\ trav_pending # <<>>
    /\ Len(trav_args.entity_ids) - Len(trav_pending) < MaxRecords
    /\ \E name \in NodeNames, connected \in ConnectedSets :
          trav_entities' =
             trav_entities
                \cup {[id |-> Head(trav_pending), name |-> name]}
                \cup connected
    /\ trav_pending' = Tail(trav_pending)
    /\ UNCHANGED <<q_pc, request, vector_results, question_entities, seeds,
                   graph_context, answer, reasoning_path, response, q_http,
                   calls, graph_failed>>
    /\ UNCHANGED <<all_entities, trav_args, outcomes>>
    /\ UNCHANGED <<search_vars, conc_vars, ingest_vars>>

\* multi_hop_traversal lines 293-296: the set is returned as a list, and
\* all_rels, to which nothing was added, as the relationships
TraverseReturn ==
    /\ q_pc = "traverse"
    /\ \/ trav_pending = <<>>
       \/ Len(trav_args.entity_ids) - Len(trav_pending) >= MaxRecords
    /\ \E listing \in Listings(trav_entities) :
          graph_context' = [entities |-> listing, relationships |-> <<>>]
    /\ q_pc' = "synth"
    /\ UNCHANGED <<request, vector_results, question_entities, seeds,
                   trav_pending, trav_entities, answer, reasoning_path,
                   response, q_http, calls, graph_failed>>
    /\ UNCHANGED <<all_entities, trav_args, outcomes>>
    /\ UNCHANGED <<search_vars, conc_vars, ingest_vars>>

\* get_all_entities raises (line 195): nothing in _graph_traversal or query
\* catches it, execute_query turns it into HTTP 500 (query.py lines 68-69)
GetAllEntitiesRaises ==
    /\ q_pc = "graph"
    /\ GraphStageEnabled(request.mode)
    /\ \A i \in 1..Len(question_entities) : IsStr(question_entities[i])
    /\ calls' = [calls EXCEPT !.graph_traversal = @ + 1,
                              !.get_all_entities = @ + 1]
    /\ graph_failed' = TRUE
    /\ q_http' = 500
    /\ q_pc' = "raised"
    /\ UNCHANGED <<request, vector_results, question_entities, seeds,
                   trav_pending, trav_entities, graph_context, answer,
                   reasoning_path, response>>
    /\ UNCHANGED <<all_entities, trav_args, outcomes>>
    /\ UNCHANGED <<search_vars, conc_vars, ingest_vars>>

\* multi_hop_traversal raises (line 207, session.run of line 281): the same way
MultiHopRaises ==
    /\ q_pc = "traverse"
    /\ graph_failed' = TRUE
    /\ q_http' = 500
    /\ q_pc' = "raised"
    /\ UNCHANGED <<request, vector_results, question_entities, seeds,
                   trav_pending, trav_entities, graph_context, answer,
                   reasoning_path, response, calls>>
    /\ UNCHANGED <<all_entities, trav_args, outcomes>>
    /\ UNCHANGED <<search_vars, conc_vars, ingest_vars>>

\* line 100 and _generate_answer: the client is missing, or the completion is
\* made and succeeds or raises
GenerateAnswer ==
    /\ q_pc = "synth"
    /\ \E client \in BOOLEAN, llm_ok \in BOOLEAN :
          /\ (llm_ok => client)
          /\ calls' = [calls EXCEPT
                          !.generate_llm = IF client THEN @ + 1 ELSE @]
          /\ outcomes' = [outcomes EXCEPT
                             !.synth = IF llm_ok THEN "ok"
                                       ELSE IF client THEN "raised"
                                       ELSE "no_client"]
          /\ answer' =
                GenerateAnswerOutcome(llm_ok, vector_results, graph_context).answer
          /\ reasoning_path' =
                GenerateAnswerOutcome(llm_ok, vector_results,
                                      graph_context).reasoning_path
    /\ q_pc' = "respond"
    /\ UNCHANGED <<request, vector_results, question_entities, seeds,
                   trav_pending, trav_entities, graph_context, response,
                   q_http, graph_failed>>
    /\ UNCHANGED <<all_entities, trav_args>>
    /\ UNCHANGED <<search_vars, conc_vars, ingest_vars>>

\* lines 107-118, and query.py lines 45-66: the result is returned
Respond ==
    /\ q_pc = "respond"
    /\ response' = QueryResult(request.question, request.mode, answer,
                               reasoning_path, vector_results, graph_context)
    /\ q_http' = 200
    /\ q_pc' = "done"
    /\ UNCHANGED <<request, vector_results, question_entities, seeds,
                   trav_pending, trav_entities, graph_context, answer,
                   reasoning_path, calls, graph_failed>>
    /\ UNCHANGED <<all_entities, trav_args, outcomes>>
    /\ UNCHANGED <<search_vars, conc_vars, ingest_vars>>

Next ==
    \/ QueryStart
    \/ VectorSearch
    \/ VectorSearchFails
    \/ VectorSkipped
    \/ ExtractQuestionEntities
    \/ ExtractFallback
    \/ GraphSkipped
    \/ ResolveSeeds
    \/ MentionLowerRaises
    \/ TraverseRecord
    \/ TraverseReturn
    \/ GetAllEntitiesRaises
    \/ MultiHopRaises
    \/ GenerateAnswer
    \/ Respond

Init == QueryInit

Spec == Init /\ [][Next]_vars

---------------------------------------------------------------------------
\* Two queries in flight on the engine singleton, against providers whose
\* contents do not change

\* search_by_text against an unchanging collection
StoreHits(k) == SubSeq(CorpusHits, 1, Min(k, Len(CorpusHits)))

\* the entities the completion names for a question: its capitalized words
CompletionEntities(question) ==
    LET Named(clean) == clean # <<>> /\ clean[1] \in UpperChars
    IN  SelectSeq([i \in 1..Len(question) |-> Clean(question[i])], Named)

\* _graph_traversal against an unchanging graph in which the stored entities
\* are connected to each other
GraphFor(mentions, hits) ==
    LET ids == MatchingEntityIds(StoredEntities,
                                 EntitiesToExplore(mentions, hits))
    IN  IF TraversalNeeded(ids)
        THEN [entities |-> StoredEntities, relationships |-> <<>>]
        ELSE EmptySubgraph

\* the client property, lines 31-47: the client is created on first use when
\* the key is set, and kept on the engine
ClientAfter(client, key) ==
    IF client = "none" /\ key THEN "groq" ELSE client

\* locals kept on the engine instead of in the frame of the running call
FrameShared(p) == 1

\* the frame that holds the locals of call p of query: one per call
Frame(p) == p

ConcRequests ==
    [question : Questions, mode : Modes, top_k : QueryTopKs, max_hops : {2}]

ConcInit ==
    /\ ConcIdleValues /\ api_key \in BOOLEAN
    /\ s_pc = "idle" /\ SearchIdleValues
    /\ q_pc = "idle" /\ QueryIdleValues
    /\ IngestIdleValues

\* query.py lines 36-43: request p enters query
ConcStart(p) ==
    /\ c_pc[p] = "idle"
    /\ \E r \in ConcRequests : c_request' = [c_request EXCEPT ![p] = r]
    /\ c_pc' = [c_pc EXCEPT ![p] = "vector"]
    /\ UNCHANGED <<c_hits, c_mentions, c_context, c_outcome, c_result,
                   engine_client, api_key>>
    /\ UNCHANGED <<search_vars, query_vars, ingest_vars>>

\* lines 83-85
ConcVector(p) ==
    /\ c_pc[p] = "vector"
    /\ c_hits' = [c_hits EXCEPT ![Frame(p)] =
                     IF VectorStageEnabled(c_request[p].mode)
                     THEN StoreHits(c_request[p].top_k) ELSE <<>>]
    /\ c_pc' = [c_pc EXCEPT ![p] = "extract"]
    /\ UNCHANGED <<c_request, c_mentions, c_context, c_outcome, c_result,
                   engine_client, api_key>>
    /\ UNCHANGED <<search_vars, query_vars, ingest_vars>>

\* line 88
ConcExtract(p) ==
    /\ c_pc[p] = "extract"
    /\ engine_client' = ClientAfter(engine_client, api_key)
    /\ c_mentions' = [c_mentions EXCEPT ![Frame(p)] =
                         IF engine_client' # "none"
                         THEN CompletionEntities(c_request[p].question)
                         ELSE FallbackEntities(c_request[p].question)]
    /\ c_pc' = [c_pc EXCEPT ![p] = "graph"]
    /\ UNCHANGED <<c_request, c_hits, c_context, c_outcome, c_result, api_key>>
    /\ UNCHANGED <<search_vars, query_vars, ingest_vars>>

\* lines 91-97
ConcGraph(p) ==
    /\ c_pc[p] = "graph"
    /\ c_context' = [c_context EXCEPT ![Frame(p)] =
                        IF GraphStageEnabled(c_request[p].mode)
                        THEN GraphFor(c_mentions[Frame(p)], c_hits[Frame(p)])
                        ELSE EmptySubgraph]
    /\ c_pc' = [c_pc EXCEPT ![p] = "synth"]
    /\ UNCHANGED <<c_request, c_hits, c_mentions, c_outcome, c_result,
                   engine_client, api_key>>
    /\ UNCHANGED <<search_vars, query_vars, ingest_vars>>

\* lines 100-105
ConcSynth(p) ==
    /\ c_pc[p] = "synth"
    /\ engine_client' = ClientAfter(engine_client, api_key)
    /\ c_outcome' = [c_outcome EXCEPT ![Frame(p)] =
                        GenerateAnswerOutcome(engine_client' # "none",
                                              c_hits[Frame(p)],
                                              c_context[Frame(p)])]
    /\ c_pc' = [c_pc EXCEPT ![p] = "respond"]
    /\ UNCHANGED <<c_request, c_hits, c_mentions, c_context, c_result, api_key>>
    /\ UNCHANGED <<search_vars, query_vars, ingest_vars>>

\* lines 107-118
ConcRespond(p) ==
    /\ c_pc[p] = "respond"
    /\ c_result' = [c_result EXCEPT ![p] =
                       QueryResult(c_request[p].question, c_request[p].mode,
                                   c_outcome[Frame(p)].answer,
                                   c_outcome[Frame(p)].reasoning_path,
                                   c_hits[Frame(p)], c_context[Frame(p)])]
    /\ c_pc' = [c_pc EXCEPT ![p] = "done"]
    /\ UNCHANGED <<c_request, c_hits, c_mentions, c_context, c_outcome,
                   engine_client, api_key>>
    /\ UNCHANGED <<search_vars, query_vars, ingest_vars>>

ConcNext ==
    \E p \in Queriers :
       \/ ConcStart(p)
       \/ ConcVector(p)
       \/ ConcExtract(p)
       \/ ConcGraph(p)
       \/ ConcSynth(p)
       \/ ConcRespond(p)

ConcSpec == ConcInit /\ [][ConcNext]_vars

---------------------------------------------------------------------------
\* upload_document and process_document_pipeline (api/upload.py), with the
\* extractor of services/entity_extractor.py

MaxChunks == 2

Alx == <<"A", "l", "x">>
Bob == <<"B", "o", "b">>

\* what the completion of extract_from_chunk can be: not ok for a missing
\* client, an API error or a content that is not JSON, else the parsed object
ExtractionAnswers ==
    { [ok |-> FALSE, entities |-> <<>>, relationships |-> <<>>],
      [ok |-> TRUE, entities |-> <<Alx, Bob>>,
       relationships |-> << [source |-> Alx, target |-> Bob] >>],
      [ok |-> TRUE, entities |-> << Lower(Alx), Bob >>,
       relationships |-> << [source |-> Bob, target |-> Lower(Alx)] >>],
      [ok |-> TRUE, entities |-> << Alx >>,
       relationships |-> << [source |-> Alx, target |-> Bob] >>],
      [ok |-> TRUE, entities |-> << NonString >>, relationships |-> <<>>] }

\* the words of a chunk's text
ChunkTexts == { <<Alx, <<"o", "f">>, Bob>> }

\* a chunk as chunk_text builds it, with the completion its text will get
ChunkInputs == [text : ChunkTexts, llm : ExtractionAnswers]

\* progress of the ProcessingStatus written with each stage
ProgressOfFlat(stage) == 100

ProgressOf(stage) ==
    CASE stage = "uploaded"   -> 10
      [] stage = "extracting" -> 30
      [] stage = "embedding"  -> 60
      [] stage = "graphing"   -> 80
      [] stage = "complete"   -> 100
      [] stage = "error"      -> 0

\* ProcessingStatus(doc_id=doc_id, stage=..., progress=..., details=...)
Status(stage, details) ==
    [stage |-> stage, progress |-> ProgressOf(stage), details |-> details]

\* the except clause of the embedding step keeps the pipeline going
AfterEmbeddingErrorAborts(stage) == "error"

AfterEmbeddingError(stage) == stage

\* _enrich_extraction: the n-th uuid4 value is written n
EnrichExtraction(extraction, chunk_id, n) ==
    LET raw == extraction.entities
        ents == [i \in 1..Len(raw) |->
                    [id |-> <<"entity", n + i>>, name |-> raw[i],
                     chunk_id |-> chunk_id]]
        names == {raw[i] : i \in 1..Len(raw)}
        \* entity_name_to_id keeps the id of the last entity of a name
        IdOf(nm) ==
            LET last == CHOOSE i \in 1..Len(raw) :
                           /\ raw[i] = nm
                           /\ \A j \in 1..Len(raw) : raw[j] = nm => j <= i
            IN  ents[last].id
        BothKnown(rel) == rel.source \in names /\ rel.target \in names
        kept == SelectSeq(extraction.relationships, BothKnown)
        rels == [i \in 1..Len(kept) |->
                    [id |-> <<"rel", n + Len(raw) + i>>,
                     source_entity_id |-> IdOf(kept[i].source),
                     target_entity_id |-> IdOf(kept[i].target),
                     chunk_id |-> chunk_id]]
    IN  [entities |-> ents, relationships |-> rels, chunk_id |-> chunk_id]

\* a sequence with the position of every element next to it
Indexed(seq) == [i \in 1..Len(seq) |-> [pos |-> i, val |-> seq[i]]]

\* the entity names of _mock_extraction: the distinct capitalized words of
\* more than two characters, in order, at most ten
MockNames(words) ==
    LET clean_words == [i \in 1..Len(words) |-> Clean(words[i])]
        IsEntity(w) ==
            /\ w.val # <<>>
            /\ w.val[1] \in UpperChars
            /\ Len(w.val) > 2
            \* clean_word not in entity_names
            /\ \A j \in 1..(w.pos - 1) : clean_words[j] # w.val
        picked == SelectSeq(Indexed(clean_words), IsEntity)
    IN  Prefix([i \in 1..Len(picked) |-> picked[i].val], 10)

\* _mock_extraction before it calls _enrich_extraction
MockExtraction(words) ==
    LET names == MockNames(words)
    IN  [entities |-> names,
         relationships |->
            [i \in 1..(Len(names) - 1) |->
                [source |-> names[i], target |-> names[i + 1]]]]

\* _mock_extraction of every chunk text
MockTable == [words \in ChunkTexts |-> MockExtraction(words)]

\* extract_from_chunk
ExtractFromChunk(chunk, n) ==
    IF ~chunk.llm.ok
    THEN EnrichExtraction(MockTable[chunk.text], chunk.id, n)
    ELSE EnrichExtraction(chunk.llm, chunk.id, n)

\* uuid4 values one extraction has drawn
UuidsDrawn(extraction) ==
    Len(extraction.entities) + Len(extraction.relationships)

\* batch_extract
RECURSIVE BatchExtract(_, _)
BatchExtract(chunks, n) ==
    IF chunks = <<>> THEN <<>>
    ELSE LET first == ExtractFromChunk(Head(chunks), n)
         IN  <<first>> \o BatchExtract(Tail(chunks), n + UuidsDrawn(first))

RECURSIVE TotalUuids(_)
TotalUuids(extractions) ==
    IF extractions = <<>> THEN 0
    ELSE UuidsDrawn(Head(extractions)) + TotalUuids(Tail(extractions))

RECURSIVE Concat(_)
Concat(seqs) ==
    IF seqs = <<>> THEN <<>> ELSE Head(seqs) \o Concat(Tail(seqs))

\* the entities merge_extractions keeps: the first of every lower-cased name
DedupByName(entities) ==
    LET IsNew(x) ==
            \* name_lower not in seen_entity_names
            \A j \in 1..(x.pos - 1) :
               Lower(entities[j].name) # Lower(x.val.name)
        picked == SelectSeq(Indexed(entities), IsNew)
    IN  [i \in 1..Len(picked) |-> picked[i].val]

\* the relationships merge_extractions keeps: all of them
RelationshipsKept(extractions, kept) ==
    Concat([i \in 1..Len(extractions) |-> extractions[i].relationships])

\* merge_extractions
MergeExtractions(extractions) ==
    LET all_entities_in ==
            Concat([i \in 1..Len(extractions) |-> extractions[i].entities])
        kept == DedupByName(all_entities_in)
        all_relationships == RelationshipsKept(extractions, kept)
    IN  [entities |-> kept,
         relationships |-> all_relationships,
         entity_count |-> Len(kept),
         relationship_count |-> Len(all_relationships)]

\* entity["name"].lower() raises on a name that is not a str
MergeRaises(extractions) ==
    \E i \in 1..Len(extractions) :
       \E j \in 1..Len(extractions[i].entities) :
          ~IsStr(extractions[i].entities[j].name)

\* the chunks process_document hands over for document d
ChunksOf(d, inputs) ==
    [i \in 1..Len(inputs) |->
        [id |-> <<d, i - 1>>, text |-> inputs[i].text, llm |-> inputs[i].llm,
         doc_id |-> d, chunk_index |-> i - 1]]

Uploads == Cardinality({d \in DocIds : processing_status[d].stage # "none"})

UploadInit ==
    /\ UploadIdleValues /\ ChunkIdleValues
    /\ s_pc = "idle" /\ SearchIdleValues
    /\ q_pc = "idle" /\ QueryIdleValues
    /\ ConcIdleValues /\ api_key = FALSE

\* upload_document, lines 27-85, for an accepted file
UploadDocument ==
    /\ u_pc = "idle"
    /\ Uploads < Len(DocOrder)
    /\ LET doc_id == DocOrder[Uploads + 1]
       IN  \E n \in 0..MaxChunks : \E inputs \in [1..n -> ChunkInputs] :
              /\ processing_status' =
                    [processing_status EXCEPT ![doc_id] =
                        Status("uploaded", [chunks |-> n])]
              /\ pending' = Append(pending,
                                   [doc_id |-> doc_id,
                                    chunks |-> ChunksOf(doc_id, inputs)])
    /\ u_http' = 200
    /\ UNCHANGED <<u_pc, u_doc, u_chunks, u_extractions, merged, u_i, failures,
                   graph_documents, graph_nodes, graph_edges, vector_index,
                   uuid_next>>
    /\ UNCHANGED <<search_vars, query_vars, conc_vars, chunk_vars>>

\* upload_document, lines 44-51 and 87-88: an extension that is not allowed,
\* or process_document raising
UploadRefused ==
    /\ u_pc = "idle"
    /\ \E code \in {400, 500} : u_http' = code
    /\ UNCHANGED <<processing_status, pending, u_pc, u_doc, u_chunks, u_extractions, merged,
                   u_i, failures, graph_documents, graph_nodes, graph_edges,
                   vector_index, uuid_next>>
    /\ UNCHANGED <<search_vars, query_vars, conc_vars, chunk_vars>>

\* process_document_pipeline, lines 95-103: the background task starts
PipelineStart ==
    /\ u_pc = "idle"
    /\ pending # <<>>
    /\ u_doc' = Head(pending).doc_id
    /\ u_chunks' = Head(pending).chunks
    /\ pending' = Tail(pending)
    /\ processing_status' =
          [processing_status EXCEPT ![u_doc'] =
              Status("extracting", [current_chunk |-> 0,
                                    total_chunks |-> Len(u_chunks')])]
    /\ u_pc' = "extract"
    /\ UNCHANGED <<u_extractions, merged, u_i, u_http, failures, graph_documents,
                   graph_nodes, graph_edges, vector_index, uuid_next>>
    /\ UNCHANGED <<search_vars, query_vars, conc_vars, chunk_vars>>

\* what every exit of the pipeline leaves behind
PipelineOver ==
    /\ u_pc' = "idle"
    /\ u_doc' = "none"
    /\ u_chunks' = <<>>
    /\ u_extractions' = <<>>
    /\ merged' = NoMerged
    /\ u_i' = 0

\* the except clause, lines 183-190
PipelineError(step) ==
    /\ processing_status' =
          [processing_status EXCEPT ![u_doc] =
              Status("error", [error |-> step])]
    /\ failures' = [failures EXCEPT ![u_doc] = @ \cup {step}]
    /\ PipelineOver

\* lines 105-106
BatchExtractChunks ==
    /\ u_pc = "extract"
    /\ u_extractions' = BatchExtract(u_chunks, uuid_next)
    /\ uuid_next' = uuid_next + TotalUuids(u_extractions')
    /\ u_pc' = "merge"
    /\ UNCHANGED <<processing_status, pending, u_doc, u_chunks, merged, u_i,
                   u_http, failures, graph_documents, graph_nodes,
                   graph_edges, vector_index>>
    /\ UNCHANGED <<search_vars, query_vars, conc_vars, chunk_vars>>

\* lines 107-116
MergeAndReport ==
    /\ u_pc = "merge"
    /\ ~MergeRaises(u_extractions)
    /\ merged' = MergeExtractions(u_extractions)
    /\ processing_status' =
          [processing_status EXCEPT ![u_doc] =
              Status("embedding", [entities_found |-> merged'.entity_count])]
    /\ u_pc' = "embed"
    /\ UNCHANGED <<pending, u_doc, u_chunks, u_extractions, u_i, u_http,
                   failures, graph_documents, graph_nodes, graph_edges,
                   vector_index, uuid_next>>
    /\ UNCHANGED <<search_vars, query_vars, conc_vars, chunk_vars>>

\* line 107 raising inside merge_extractions
MergeExtractionsRaises ==
    /\ u_pc = "merge"
    /\ MergeRaises(u_extractions)
    /\ PipelineError("merge")
    /\ UNCHANGED <<pending, u_http, graph_documents, graph_nodes,
                   graph_edges, vector_index, uuid_next>>
    /\ UNCHANGED <<search_vars, query_vars, conc_vars, chunk_vars>>

\* lines 118-145 with the chunks added to the collection
EmbedChunks ==
    /\ u_pc = "embed"
    /\ vector_index' =
          vector_index \cup {u_chunks[i].id : i \in 1..Len(u_chunks)}
    /\ processing_status' =
          [processing_status EXCEPT ![u_doc] =
              Status("graphing",
                     [relationships_found |-> merged.relationship_count])]
    /\ u_pc' = "graph"
    /\ UNCHANGED <<pending, u_doc, u_chunks, u_extractions, merged, u_i, u_http, failures,
                   graph_documents, graph_nodes, graph_edges, uuid_next>>
    /\ UNCHANGED <<search_vars, query_vars, conc_vars, chunk_vars>>

\* lines 118-145 with generate_embeddings or collection.add raising
EmbeddingRaises ==
    /\ u_pc = "embed"
    /\ failures' = [failures EXCEPT ![u_doc] = @ \cup {"embedding"}]
    /\ processing_status' =
          [processing_status EXCEPT ![u_doc] =
              Status(AfterEmbeddingError("graphing"),
                     [relationships_found |-> merged.relationship_count])]
    /\ u_pc' = "graph"
    /\ UNCHANGED <<pending, u_doc, u_chunks, u_extractions, merged, u_i, u_http,
                   graph_documents, graph_nodes, graph_edges, vector_index,
                   uuid_next>>
    /\ UNCHANGED <<search_vars, query_vars, conc_vars, chunk_vars>>

\* line 148
CreateDocument ==
    /\ u_pc = "graph"
    /\ graph_documents' = graph_documents \cup {u_doc}
    /\ u_pc' = "entities"
    /\ u_i' = 0
    /\ UNCHANGED <<processing_status, pending, u_doc, u_chunks, u_extractions, merged,
                   u_http, failures, graph_nodes, graph_edges, vector_index,
                   uuid_next>>
    /\ UNCHANGED <<search_vars, query_vars, conc_vars, chunk_vars>>

\* one iteration of the loop of lines 151-158: MERGE (e:Entity {id: $id})
CreateEntity ==
    /\ u_pc = "entities"
    /\ u_i < Len(merged.entities)
    /\ graph_nodes' = graph_nodes \cup {merged.entities[u_i + 1].id}
    /\ u_i' = u_i + 1
    /\ UNCHANGED <<processing_status, pending, u_pc, u_doc, u_chunks, u_extractions, merged,
                   u_http, failures, graph_documents, graph_edges,
                   vector_index, uuid_next>>
    /\ UNCHANGED <<search_vars, query_vars, conc_vars, chunk_vars>>

\* the loop of lines 151-158 is over
EntitiesWritten ==
    /\ u_pc = "entities"
    /\ u_i = Len(merged.entities)
    /\ u_pc' = "relationships"
    /\ u_i' = 0
    /\ UNCHANGED <<processing_status, pending, u_doc, u_chunks, u_extractions, merged,
                   u_http, failures, graph_documents, graph_nodes,
                   graph_edges, vector_index, uuid_next>>
    /\ UNCHANGED <<search_vars, query_vars, conc_vars, chunk_vars>>

\* one iteration of the loop of lines 160-168: create_relationship MATCHes
\* both endpoints and creates nothing when one of them is not in the graph
CreateRelationship ==
    /\ u_pc = "relationships"
    /\ u_i < Len(merged.relationships)
    /\ LET rel == merged.relationships[u_i + 1]
       IN  graph_edges' =
              IF /\ rel.source_entity_id \in graph_nodes
                 /\ rel.target_entity_id \in graph_nodes
              THEN graph_edges \cup {rel}
              ELSE graph_edges
    /\ u_i' = u_i + 1
    /\ UNCHANGED <<processing_status, pending, u_pc, u_doc, u_chunks, u_extractions, merged,
                   u_http, failures, graph_documents, graph_nodes,
                   vector_index, uuid_next>>
    /\ UNCHANGED <<search_vars, query_vars, conc_vars, chunk_vars>>

\* lines 170-181
PipelineComplete ==
    /\ u_pc = "relationships"
    /\ u_i = Len(merged.relationships)
    /\ processing_status' =
          [processing_status EXCEPT ![u_doc] =
              Status("complete",
                     [entities_created |-> merged.entity_count,
                      relationships_created |-> merged.relationship_count,
                      chunks_indexed |-> Len(u_chunks)])]
    /\ PipelineOver
    /\ UNCHANGED <<pending, u_http, failures, graph_documents, graph_nodes,
                   graph_edges, vector_index, uuid_next>>
    /\ UNCHANGED <<search_vars, query_vars, conc_vars, chunk_vars>>

\* create_document, create_entity or create_relationship raising
GraphWriteRaises ==
    /\ \/ u_pc = "graph"
       \/ u_pc = "entities" /\ u_i < Len(merged.entities)
       \/ u_pc = "relationships" /\ u_i < Len(merged.relationships)
    /\ PipelineError("graph")
    /\ UNCHANGED <<pending, u_http, graph_documents, graph_nodes,
                   graph_edges, vector_index, uuid_next>>
    /\ UNCHANGED <<search_vars, query_vars, conc_vars, chunk_vars>>

\* the steps of a background task
PipelineStep ==
    \/ PipelineStart
    \/ BatchExtractChunks
    \/ MergeAndReport
    \/ MergeExtractionsRaises
    \/ EmbedChunks
    \/ EmbeddingRaises
    \/ CreateDocument
    \/ CreateEntity
    \/ EntitiesWritten
    \/ CreateRelationship
    \/ PipelineComplete
    \/ GraphWriteRaises

UploadNext ==
    \/ UploadDocument
    \/ UploadRefused
    \/ PipelineStep

UploadSpec == UploadInit /\ [][UploadNext]_vars

\* the event loop runs every background task it holds, and every call of a
\* task returns or raises
UploadFairSpec == UploadSpec /\ WF_vars(PipelineStep)

---------------------------------------------------------------------------
\* DocumentProcessor.chunk_text (services/document_processor.py); a text is
\* a sequence of characters and offsets count from 0 as in the code

MaxTextLen == 8
MaxChunkSize == 7

\* a character that is not whitespace, a blank and a newline
TextChars == {".", " ", "\n"}
Whitespace == {" ", "\n"}

\* the texts extract_text can return
RECURSIVE TextsOfLen(_)
TextsOfLen(n) ==
    IF n = 0 THEN { <<>> }
    ELSE {Append(t, c) : t \in TextsOfLen(n - 1), c \in TextChars}

Texts == UNION {TextsOfLen(n) : n \in 0..MaxTextLen}

\* the chunk sizes and overlaps a DocumentProcessor is built with: a positive
\* size and an overlap of at most half of it, as the defaults 500 and 100
ChunkSizes == 1..MaxChunkSize
Overlaps(size) == 0..(size \div 2)

\* str.strip()
Strip(text) ==
    LET inner == {i \in 1..Len(text) : text[i] \notin Whitespace}
    IN  IF inner = {} THEN <<>>
        ELSE LET first == CHOOSE i \in inner : \A j \in inner : i <= j
                 last == CHOOSE i \in inner : \A j \in inner : j <= i
             IN  SubSeq(text, first, last)

\* text[start:end]
Slice(text, start, end) == SubSeq(text, start + 1, end)

\* text.rfind(sep, start, end)
RFind(text, sep, start, end) ==
    LET found == {i \in start..(end - Len(sep)) :
                     Slice(text, i, i + Len(sep)) = sep}
    IN  IF found = {} THEN -1
        ELSE CHOOSE i \in found : \A j \in found : j <= i

ParagraphBreak == <<"\n", "\n">>

\* the separators of line 151, in order
SentenceSeparators ==
    << <<".", " ">>, <<"!", " ">>, <<"?", " ">>,
       <<".", "\n">>, <<"!", "\n">>, <<"?", "\n">> >>

\* a break has to lie behind the first half of the chunk
BreakFloor(start, size) == start + size \div 2

\* lines 142-157: the end of the chunk that starts at start
ChunkEnd(text, start, size) ==
    LET end == start + size
        para_break == RFind(text, ParagraphBreak, start, end)
        Usable(k) ==
            RFind(text, SentenceSeparators[k], start, end)
               > BreakFloor(start, size)
        usable == {k \in 1..Len(SentenceSeparators) : Usable(k)}
    IN  IF end < Len(text)
        THEN IF para_break > BreakFloor(start, size)
             THEN para_break + 2
             ELSE IF usable = {} THEN end
                  ELSE LET k == CHOOSE i \in usable : \A j \in usable : i <= j
                       IN  RFind(text, SentenceSeparators[k], start, end)
                              + Len(SentenceSeparators[k])
        ELSE Len(text)

\* a start that steps back by twice the overlap
NextStartTwice(end, overlap) == end - overlap - overlap

\* line 178
NextStart(end, overlap) == end - overlap

ChunkInit ==
    /\ k_pc = "idle"
    /\ k_text = <<>>
    /\ chunk_size \in ChunkSizes
    /\ chunk_overlap \in Overlaps(chunk_size)
    /\ k_start = 0
    /\ k_end = 0
    /\ chunk_index = 0
    /\ k_chunks = <<>>
    /\ k_ranges = <<>>
    /\ UploadIdleValues
    /\ s_pc = "idle" /\ SearchIdleValues
    /\ q_pc = "idle" /\ QueryIdleValues
    /\ ConcIdleValues /\ api_key = FALSE

\* lines 131-138: chunk_text is called with a text
ChunkTextCall ==
    /\ k_pc = "idle"
    /\ \E text \in Texts : k_text' = Strip(text)
    /\ k_pc' = IF k_text' = <<>> THEN "returned" ELSE "loop"
    /\ UNCHANGED <<chunk_size, chunk_overlap, k_start, k_end, chunk_index,
                   k_chunks, k_ranges>>
    /\ UNCHANGED <<search_vars, query_vars, conc_vars, upload_vars>>

\* one iteration of the loop of lines 140-180, with the test that ends it
ChunkIteration ==
    /\ k_pc = "loop"
    /\ k_end' = ChunkEnd(k_text, k_start, chunk_size)
    /\ LET chunk_text == Strip(Slice(k_text, k_start, k_end'))
       IN  IF chunk_text # <<>>
           THEN /\ k_chunks' = Append(k_chunks,
                                      [text |-> chunk_text,
                                       chunk_index |-> chunk_index,
                                       start_char |-> k_start,
                                       end_char |-> k_end'])
                /\ chunk_index' = chunk_index + 1
           ELSE UNCHANGED <<k_chunks, chunk_index>>
    /\ k_ranges' = Append(k_ranges, <<k_start, k_end'>>)
    /\ k_start' = NextStart(k_end', chunk_overlap)
    /\ k_pc' = IF \/ k_start' >= Len(k_text) - chunk_overlap
                  \/ ~(k_start' < Len(k_text))
               THEN "returned" ELSE "loop"
    /\ UNCHANGED <<k_text, chunk_size, chunk_overlap>>
    /\ UNCHANGED <<search_vars, query_vars, conc_vars, upload_vars>>

ChunkNext ==
    \/ ChunkTextCall
    \/ ChunkIteration

ChunkSpec == ChunkInit /\ [][ChunkNext]_vars

\* a call that has entered the loop keeps running
ChunkFairSpec == ChunkSpec /\ WF_vars(ChunkIteration)

---------------------------------------------------------------------------
\* Claims about search_files

\* position of doc d in the insertion order of file_scores
PosIn(order, d) == CHOOSE i \in 1..Len(order) : order[i] = d

\* C1: for every candidate with bundle (s, e, g) the raw final score used for
\* ranking is 0.5*s + 0.3*e + 0.2*g; in tenths of a score unit that is
\* 5*s + 3*e + 2*g, both in file_raw_scores and in what RankFiles normalizes.
C1_FinalScoreFormula ==
    /\ s_pc \in {"rank", "done"} =>
          /\ DOMAIN file_raw_scores = DOMAIN file_scores
          /\ \A d \in DOMAIN file_scores :
                file_raw_scores[d] =
                    5 * file_scores[d].semantic_score
                  + 3 * file_scores[d].entity_score
                  + 2 * file_scores[d].graph_score
    /\ s_pc = "done" =>
          \A i \in 1..Len(ranked_files) :
             LET b == file_scores[ranked_files[i].file_id] IN
             ranked_files[i].norm_num =
                 5 * b.semantic_score + 3 * b.entity_score + 2 * b.graph_score

\* C1 witness: a ranked candidate whose three components are all non-zero,
\* (0.80001, 1.0, 0.5), with final score 0.800005
C1_Witness ==
    /\ s_pc = "done"
    /\ \E i \in 1..Len(ranked_files) :
          /\ file_scores[ranked_files[i].file_id] =
                [semantic_score |-> 80001, entity_score |-> SemScale,
                 graph_score |-> SemScale \div 2]
          /\ file_raw_scores[ranked_files[i].file_id] = 800005

\* C2: no file is in the ranked output with a normalized score below 0.2,
\* whatever the batch and the file-type filter.
C2_NoResultBelowThreshold ==
    s_pc = "done" =>
       \A i \in 1..Len(ranked_files) :
          /\ max_score > 0
          /\ 10 * file_raw_scores[ranked_files[i].file_id] >= 2 * max_score
          /\ ranked_files[i].relevance_score >= 2000

\* C2 witness: a candidate with a positive score below the cutoff is left out
\* of a non-empty output
C2_Witness ==
    /\ s_pc = "done"
    /\ ranked_files # <<>>
    /\ \E d \in DOMAIN file_scores :
          /\ file_raw_scores[d] > 0
          /\ 10 * file_raw_scores[d] < 2 * max_score
          /\ \A i \in 1..Len(ranked_files) : ranked_files[i].file_id # d

\* C3 (as claimed): for a non-empty batch the largest normalized score is 1 if
\* some final score is positive and 0 if all are zero, and every normalized
\* score lies in [0, 1].
C3_NormalizedInUnitInterval ==
    (s_pc \in {"rank", "done"} /\ file_order # <<>>) =>
       /\ (\E d \in DOMAIN file_raw_scores : file_raw_scores[d] > 0) =>
             \E d \in DOMAIN file_raw_scores :
                LET n == Normalized(file_raw_scores[d], max_score)
                IN  n[1] = n[2]
       /\ (\A d \in DOMAIN file_raw_scores : file_raw_scores[d] = 0) =>
             \A d \in DOMAIN file_raw_scores :
                Normalized(file_raw_scores[d], max_score)[1] = 0
       /\ \A d \in DOMAIN file_raw_scores :
             LET n == Normalized(file_raw_scores[d], max_score)
             IN  0 <= n[1] /\ n[1] <= n[2]

\* C4 (as claimed): the output is ordered by normalized score descending,
\* equal normalized scores keep insertion order, and a strictly higher
\* normalized score never comes after a lower one.
C4_OrderedByNormalized ==
    s_pc = "done" =>
       \A i, j \in 1..Len(ranked_files) :
          i < j =>
             /\ ranked_files[i].norm_num >= ranked_files[j].norm_num
             /\ ranked_files[i].norm_num = ranked_files[j].norm_num =>
                   PosIn(file_order, ranked_files[i].file_id)
                     < PosIn(file_order, ranked_files[j].file_id)

\* C4 (amended): the output is ordered by relevance_score, the normalized score
\* rounded to 4 decimals, descending; equal relevance_score keep insertion
\* order; a file with a higher relevance_score never comes after a lower one,
\* so a higher normalized score comes after a lower one only when both round
\* to the same relevance_score.
C4_OrderedByRelevanceStable ==
    s_pc = "done" =>
       \A i, j \in 1..Len(ranked_files) :
          i < j =>
             /\ ranked_files[i].relevance_score
                  = RoundNormalized(file_raw_scores[ranked_files[i].file_id],
                                    max_score)
             /\ ranked_files[i].relevance_score >= ranked_files[j].relevance_score
             /\ ranked_files[i].relevance_score = ranked_files[j].relevance_score =>
                   PosIn(file_order, ranked_files[i].file_id)
                     < PosIn(file_order, ranked_files[j].file_id)
             /\ ranked_files[i].norm_num < ranked_files[j].norm_num =>
                   ranked_files[i].relevance_score = ranked_files[j].relevance_score

\* C4 witness: two files of the output share a relevance_score although their
\* normalized scores differ, and the one inserted first comes first
C4_Witness ==
    /\ s_pc = "done"
    /\ Len(ranked_files) = 2
    /\ ranked_files[1].relevance_score = ranked_files[2].relevance_score
    /\ ranked_files[1].norm_num # ranked_files[2].norm_num
    /\ file_order = <<ranked_files[1].file_id, ranked_files[2].file_id>>

---------------------------------------------------------------------------
\* Claims about the query engine

StepKinds(path) == [i \in 1..Len(path) |-> path[i].description]

\* C5: the step_number values of the reasoning path are 1..N in list order,
\* whichever of the optional steps are present.
C5_StepNumbersContiguous ==
    /\ \A i \in 1..Len(reasoning_path) : reasoning_path[i].step_number = i
    /\ q_pc = "done" =>
          \A i \in 1..Len(response.reasoning_path) :
             response.reasoning_path[i].step_number = i

\* C5 witness: a returned path where the semantic step is skipped and the graph
\* step is present, numbered 1, 2, 3
C5_Witness ==
    /\ q_pc = "done"
    /\ vector_results = <<>>
    /\ graph_context.entities # <<>>
    /\ StepKinds(response.reasoning_path) = <<"question", "graph", "synthesis">>
    /\ response.reasoning_path[3].step_number = 3

\* C6: when synthesis succeeds the path is the question step, the semantic step
\* iff there are hits, the graph step iff the subgraph has an entity, and the
\* synthesis step, so its length is 2 + [hits] + [entities].
C6_ReasoningPathShape ==
    answer = "answer" =>
       /\ StepKinds(reasoning_path) =
             <<"question">>
                \o (IF Len(vector_results) > 0 THEN <<"semantic">> ELSE <<>>)
                \o (IF Len(graph_context.entities) > 0 THEN <<"graph">> ELSE <<>>)
                \o <<"synthesis">>
       /\ Len(reasoning_path) =
             2 + (IF Len(vector_results) > 0 THEN 1 ELSE 0)
               + (IF Len(graph_context.entities) > 0 THEN 1 ELSE 0)

\* C6 witness: a vector-mode query with 3 hits and no graph call returns a path
\* of 3 steps
C6_Witness ==
    /\ q_pc = "done"
    /\ request.mode = "vector"
    /\ Len(vector_results) = 3
    /\ calls.get_all_entities = 0 /\ calls.multi_hop_traversal = 0
    /\ Len(response.reasoning_path) = 3

\* C7 (as claimed): the entities returned by multi_hop_traversal never hold two
\* records with the same id, whatever their other attributes are.
C7_EntitiesUniqueById ==
    \A i, j \in 1..Len(graph_context.entities) :
       i # j => graph_context.entities[i].id # graph_context.entities[j].id

\* the graph stage of a graph or hybrid query is over and resolved no seed
GraphStageOverNoSeed ==
    /\ q_pc \in {"synth", "respond", "done"}
    /\ request.mode \in {"graph", "hybrid"}
    /\ seeds = <<>>

\* C8 (as claimed): with no seed resolved, graph traversal returns the empty
\* subgraph and has made no call at all to the graph provider.
C8_NoProviderCallOnEmptySeeds ==
    GraphStageOverNoSeed =>
       /\ graph_context = EmptySubgraph
       /\ calls.get_all_entities + calls.multi_hop_traversal = 0

\* C8 (amended): with no seed resolved, graph traversal returns the empty
\* subgraph without calling multi_hop_traversal; the one call it has made to
\* the graph provider is the get_all_entities lookup that resolves the seeds.
C8_NoTraversalCallOnEmptySeeds ==
    GraphStageOverNoSeed =>
       /\ graph_context = EmptySubgraph
       /\ calls.multi_hop_traversal = 0
       /\ calls.get_all_entities = 1

\* C8 witness: a graph-mode query whose mentions match no stored entity
C8_Witness ==
    /\ q_pc = "done"
    /\ request.mode = "graph"
    /\ question_entities # <<>>
    /\ seeds = <<>>
    /\ response.graph_context.nodes = <<>>

\* C9 (as claimed): a failure of the graph provider during a graph or hybrid
\* query does not abort the request; the query goes on with an empty subgraph
\* and returns a result.
C9_GraphFailureDegrades ==
    graph_failed =>
       /\ q_pc # "raised"
       /\ q_http # 500
       /\ graph_context = EmptySubgraph

\* C10: when synthesis fails the query still returns, with the failure message
\* as answer and an empty reasoning path, and with evidence, graph_context and
\* mode_used as the hits, the subgraph and the request give them.
C10_SynthesisFailureDegrades ==
    /\ answer = "unable" => q_pc \in {"respond", "done"}
    /\ (q_pc = "done" /\ answer = "unable") =>
          /\ q_http = 200
          /\ response.answer = "unable"
          /\ response.reasoning_path = <<>>
          /\ response.mode_used = request.mode
          /\ Len(response.evidence) = Len(vector_results)
          /\ \A i \in 1..Len(vector_results) :
                /\ response.evidence[i].relevance_score = vector_results[i].score
                /\ response.evidence[i].chunk_text = vector_results[i].text
          /\ Len(response.graph_context.nodes) = Len(graph_context.entities)
          /\ \A i \in 1..Len(graph_context.entities) :
                /\ response.graph_context.nodes[i].id = graph_context.entities[i].id
                /\ response.graph_context.nodes[i].name
                      = graph_context.entities[i].name

\* C10 witness: a hybrid query with hits and a non-empty subgraph whose
\* synthesis failed has returned
C10_Witness ==
    /\ q_pc = "done"
    /\ q_http = 200
    /\ answer = "unable"
    /\ request.mode = "hybrid"
    /\ vector_results # <<>>
    /\ graph_context.entities # <<>>

---------------------------------------------------------------------------
\* Further claims about the query engine

\* the fields of the dict query returns
ResultFields ==
    {"question", "answer", "reasoning_path", "evidence", "graph_context",
     "mode_used", "processing_time_ms"}

\* C11 (as claimed): in every mode and whatever collaborators fail, the query
\* never ends in an error: it ends by returning a result object that has the
\* seven fields question, answer, reasoning_path, evidence, graph_context,
\* mode_used and processing_time_ms.
C11_NoStageFailureIsFatal ==
    /\ q_pc # "raised"
    /\ q_http \in {0, 200}
    /\ q_pc = "done" => DOMAIN response = ResultFields

\* C12: the similarity search is called iff the mode is vector or hybrid, the
\* graph traversal stage (and with it any call of the graph provider) is
\* entered iff the mode is graph or hybrid; a vector-mode result has no nodes
\* and no edges, a graph-mode result has no hits and no evidence.
C12_StageDispatchFollowsMode ==
    /\ q_pc \notin {"idle", "vector"} =>
          (calls.search_by_text = 1 <=> request.mode \in {"vector", "hybrid"})
    /\ calls.search_by_text > 0 => request.mode \in {"vector", "hybrid"}
    /\ q_pc \in {"traverse", "synth", "respond", "done", "raised"} =>
          (calls.graph_traversal = 1 <=> request.mode \in {"graph", "hybrid"})
    /\ calls.graph_traversal + calls.get_all_entities
          + calls.multi_hop_traversal > 0 =>
             request.mode \in {"graph", "hybrid"}
    /\ (q_pc = "done" /\ request.mode = "vector") =>
          /\ response.graph_context.nodes = <<>>
          /\ response.graph_context.edges = <<>>
    /\ (q_pc = "done" /\ request.mode = "graph") =>
          /\ vector_results = <<>>
          /\ response.evidence = <<>>

\* C12 witness: a vector-mode query whose question names a stored entity has
\* returned hits and made no call towards the graph
C12_Witness ==
    /\ q_pc = "done"
    /\ request.mode = "vector"
    /\ calls.search_by_text = 1
    /\ Len(response.evidence) > 0
    /\ question_entities = << <<"A", "l">> >>
    /\ calls.graph_traversal = 0
    /\ response.graph_context.nodes = <<>>

\* C13 (as claimed): the hop limit handed to multi_hop_traversal is never
\* above 6; a larger max_hops of the request is clamped to 6.
C13_HopLimitAtMostSix ==
    calls.multi_hop_traversal > 0 => trav_args.max_hops <= 6

\* C14: the list of start entities handed to multi_hop_traversal holds at most
\* 10 ids, and when more than 10 entities match it is the first 10 of them in
\* match order.
C14_SeedListCapped ==
    calls.multi_hop_traversal > 0 =>
       /\ Len(trav_args.entity_ids) <= 10
       /\ Len(trav_args.entity_ids) = Min(Len(seeds), 10)
       /\ \A i \in 1..Len(trav_args.entity_ids) :
             trav_args.entity_ids[i] = seeds[i]

\* C14 witness: 11 of 12 stored entities matched (the second did not) and the
\* traversal started from the first 10 of them
C14_Witness ==
    /\ q_pc = "done"
    /\ Len(seeds) = 11
    /\ seeds[2] = "e3"
    /\ seeds[11] = "e12"
    /\ Len(trav_args.entity_ids) = 10
    /\ trav_args.entity_ids[10] = "e11"

\* C15: when the similarity provider fails in a vector or hybrid query, the
\* hit list is empty and the query goes on: extraction runs, the graph stage
\* runs when the mode enables it, synthesis runs, and the returned result has
\* empty evidence.  The query is not aborted by the similarity failure.
C15_VectorFailureDegrades ==
    outcomes.vector = "failed" =>
       /\ request.mode \in {"vector", "hybrid"}
       /\ vector_results = <<>>
       /\ q_pc \notin {"idle", "vector"}
       /\ q_pc \in {"graph", "traverse", "synth", "respond", "done", "raised"}
             => outcomes.extract # "none"
       /\ q_pc \in {"synth", "respond", "done"} =>
             (calls.graph_traversal = 1 <=> request.mode = "hybrid")
       /\ q_pc \in {"respond", "done"} => outcomes.synth # "none"
       /\ q_pc = "raised" => calls.graph_traversal = 1
       /\ q_pc = "done" =>
             /\ q_http = 200
             /\ response.evidence = <<>>
             /\ DOMAIN response = ResultFields

\* C15 witness: a hybrid query whose similarity search failed has returned an
\* answer built from a non-empty subgraph
C15_Witness ==
    /\ q_pc = "done"
    /\ outcomes.vector = "failed"
    /\ request.mode = "hybrid"
    /\ outcomes.extract = "ok"
    /\ graph_context.entities # <<>>
    /\ answer = "answer"
    /\ response.evidence = <<>>

\* C16 (as claimed): when the extraction capability is missing, raises, or
\* returns text that does not parse into the expected structure, the question
\* entities are exactly those of the local heuristic for the same question.
C16_ExtractionFallsBack ==
    (q_pc \notin {"idle", "vector", "extract"} /\ outcomes.extract # "ok") =>
       question_entities = FallbackEntities(request.question)

\* C18: synthesis starts only when the similarity stage has completed, been
\* skipped or degraded and the graph stage has completed or been skipped; the
\* text generator is called at most once per query, and no collaborator is
\* called a second time, after a failure or otherwise.
C18_SynthesisAfterStagesOnce ==
    /\ calls.generate_llm <= 1
    /\ calls.search_by_text <= 1
    /\ calls.extract_llm <= 1
    /\ calls.get_all_entities <= 1
    /\ calls.multi_hop_traversal <= 1
    /\ (calls.generate_llm > 0 \/ outcomes.synth # "none") =>
          /\ q_pc \in {"respond", "done"}
          /\ IF request.mode \in {"vector", "hybrid"}
             THEN outcomes.vector \in {"ok", "failed"} /\ calls.search_by_text = 1
             ELSE outcomes.vector = "none" /\ calls.search_by_text = 0
          /\ outcomes.extract # "none"
          /\ IF request.mode \in {"graph", "hybrid"}
             THEN /\ calls.graph_traversal = 1
                  /\ calls.get_all_entities = 1
                  /\ ~graph_failed
                  /\ (calls.multi_hop_traversal = 1 <=> seeds # <<>>)
             ELSE calls.graph_traversal = 0
    /\ outcomes.vector = "failed" => calls.search_by_text = 1
    /\ outcomes.synth = "raised" => calls.generate_llm = 1
    /\ graph_failed =>
          /\ calls.get_all_entities = 1
          /\ q_pc = "raised"
          /\ calls.generate_llm = 0

\* C18 witness: a hybrid query in which the similarity search and the
\* completion both failed has returned after one call of each collaborator
C18_Witness ==
    /\ q_pc = "done"
    /\ request.mode = "hybrid"
    /\ outcomes.vector = "failed"
    /\ outcomes.synth = "raised"
    /\ calls.search_by_text = 1
    /\ calls.get_all_entities = 1
    /\ calls.multi_hop_traversal = 1
    /\ calls.generate_llm = 1

\* C19: the seeds are the ids of exactly those entities of the provider's
\* answer whose lower-cased name contains, or is contained in, the lower-cased
\* form of some question mention; each such entity gives its id once, in the
\* provider's order.
C19_SeedsAreMatchingEntities ==
    (calls.get_all_entities = 1 /\ ~graph_failed) =>
       LET Mentioned(e) ==
               \E i \in 1..Len(question_entities) :
                  \/ Contains(Lower(e.name), Lower(question_entities[i]))
                  \/ Contains(Lower(question_entities[i]), Lower(e.name))
           idx == {i \in 1..Len(all_entities) : Mentioned(all_entities[i])}
       IN  /\ Len(seeds) = Cardinality(idx)
           /\ \A i \in idx :
                 seeds[Cardinality({j \in idx : j < i}) + 1] = all_entities[i].id

\* C19 witness: one entity matched because a mention contains its name, the
\* other because its name contains a mention
C19_Witness ==
    /\ q_pc = "done"
    /\ question_entities = << <<"o">>, <<"A", "l", "x">> >>
    /\ all_entities = StoredEntities
    /\ seeds = <<"e1", "e2">>

\* C20 (as claimed): the subgraph holds the relationships on the paths that
\* start at a seed, so when the traversal reached an entity that is not a start
\* entity, over at least one relationship, the edges of the returned
\* graph_context are not empty.
C20_RelationshipsReturned ==
    (/\ q_pc = "done"
     /\ \E e \in trav_entities :
           \A i \in 1..Len(trav_args.entity_ids) :
              e.id # trav_args.entity_ids[i]) =>
       response.graph_context.edges # <<>>

---------------------------------------------------------------------------
\* Further claims about search_files

C22_ScoreComponentsNonNegative ==
    /\ \A d \in DOMAIN file_scores :
          /\ file_scores[d].semantic_score >= 0
          /\ file_scores[d].entity_score >= 0
          /\ file_scores[d].graph_score >= 0
    /\ (s_pc = "semantic" /\ hits_seen = 0) => file_scores = EmptyMap

\* a candidate that get_document knows and the file-type filter lets through
Eligible(d) ==
    /\ documents[d] # NoDoc
    /\ file_type_filter = NoFilter \/ documents[d] = LowerType(file_type_filter)

\* C26 (as claimed): a non-empty result list starts with a file of
\* relevance_score 1.0, also under a file-type filter or with a missing
\* document record.
C26_FirstFileHasFullRelevance ==
    (s_pc = "done" /\ ranked_files # <<>>) =>
       ranked_files[1].relevance_score = 10000

\* C26 (amended): the normalizing maximum is the largest final score over all
\* candidates, eligible or not; the first file of a non-empty result list has
\* relevance_score 1.0 when a candidate holding that maximum is eligible, and
\* a relevance_score from 0.2 to 1.0 otherwise.
C26_FirstFileRelativeToBatchMax ==
    (s_pc = "done" /\ ranked_files # <<>>) =>
       /\ max_score > 0
       /\ \A d \in DOMAIN file_raw_scores : file_raw_scores[d] <= max_score
       /\ \E d \in DOMAIN file_raw_scores : file_raw_scores[d] = max_score
       /\ ranked_files[1].relevance_score >= 2000
       /\ ranked_files[1].relevance_score <= 10000
       /\ (\E d \in DOMAIN file_raw_scores :
              file_raw_scores[d] = max_score /\ Eligible(d)) =>
             ranked_files[1].relevance_score = 10000

\* C26 witness: the best candidate has no document record, and the list starts
\* with a file of relevance_score below 1.0
C26_Witness ==
    /\ s_pc = "done"
    /\ ranked_files # <<>>
    /\ ranked_files[1].relevance_score < 10000
    /\ \E d \in DOMAIN file_raw_scores :
          file_raw_scores[d] = max_score /\ documents[d] = NoDoc

\* C29 (as claimed): the result holds at most top_k files, they are the top_k
\* highest-ranked survivors of cutoff and filters, and total_matches is the
\* length of the returned list.
C29_AtMostTopKFiles ==
    s_pc = "done" =>
       /\ Len(ranked_files) <= top_k
       /\ total_matches = Len(ranked_files)
       /\ LET survivors ==
                  SortByRelevance(RankLoop(file_order, file_raw_scores,
                                           max_score, documents,
                                           file_type_filter))
          IN  /\ Len(ranked_files) <= Len(survivors)
              /\ \A i \in 1..Len(ranked_files) : ranked_files[i] = survivors[i]

---------------------------------------------------------------------------
\* Claims about what a query's result depends on

\* C23: in vector mode extraction runs, but the response does not depend on
\* what it extracted: answer, reasoning_path, evidence and graph_context are
\* determined by the question, the similarity hits and the outcome of
\* synthesis alone, so two such queries that differ only in the extracted
\* question entities return the same four fields.
C23_VectorResultIgnoresEntities ==
    /\ (request.mode = "vector"
          /\ q_pc \in {"graph", "synth", "respond", "done"}) =>
          outcomes.extract # "none"
    /\ (request.mode = "vector" /\ q_pc = "done") =>
          /\ response.answer = (IF outcomes.synth = "ok" THEN "answer" ELSE "unable")
          /\ response.reasoning_path =
                (IF outcomes.synth = "ok"
                 THEN BuildReasoningPath(vector_results, EmptySubgraph)
                 ELSE <<>>)
          /\ response.evidence = FormatEvidence(vector_results)
          /\ response.graph_context = [nodes |-> <<>>, edges |-> <<>>]

\* C23 witness: a vector-mode query has returned an answer although the
\* extracted entities name both stored entities
C23_Witness ==
    /\ q_pc = "done"
    /\ request.mode = "vector"
    /\ outcomes.extract = "ok"
    /\ question_entities = << <<"o">>, <<"A", "l", "x">> >>
    /\ outcomes.synth = "ok"
    /\ Len(response.reasoning_path) = 3

\* the hit lists the similarity stage can hand to the graph stage
PossibleHitLists == {SubSeq(CorpusHits, 1, n) : n \in 0..Len(CorpusHits)}

\* C30: in hybrid mode the search terms are the lower-cased question entities
\* whatever the similarity hits are, so the seeds, and the start entities of
\* the traversal, are those that the same question entities and the same graph
\* give with any other hit list.
C30_SeedsIgnoreHits ==
    (/\ request.mode = "hybrid"
     /\ calls.get_all_entities = 1
     /\ ~graph_failed) =>
       /\ \A hits \in PossibleHitLists :
             EntitiesToExplore(question_entities, hits)
                = {Lower(question_entities[i]) :
                      i \in 1..Len(question_entities)}
       /\ seeds = MatchingEntityIds(
                     all_entities,
                     EntitiesToExplore(question_entities, vector_results))
       /\ calls.multi_hop_traversal = 1 =>
             trav_args.entity_ids = Prefix(seeds, 10)

\* C30 witness: a hybrid query with hits resolved both stored entities although
\* neither mention occurs in the text of a hit
C30_Witness ==
    /\ q_pc = "done"
    /\ request.mode = "hybrid"
    /\ Len(vector_results) = 3
    /\ question_entities = << <<"o">>, <<"A", "l", "x">> >>
    /\ seeds = <<"e1", "e2">>
    /\ graph_context.entities # <<>>

---------------------------------------------------------------------------
\* Claims about queries in flight together

\* what one query returns when it runs with no other query in flight
AloneHits(r) ==
    IF r.mode \in {"vector", "hybrid"} THEN StoreHits(r.top_k) ELSE <<>>

AloneMentions(r, key) ==
    IF key THEN CompletionEntities(r.question) ELSE FallbackEntities(r.question)

AloneContext(r, key) ==
    IF r.mode \in {"graph", "hybrid"}
    THEN GraphFor(AloneMentions(r, key), AloneHits(r))
    ELSE EmptySubgraph

AloneResult(r, key) ==
    LET out == GenerateAnswerOutcome(key, AloneHits(r), AloneContext(r, key))
    IN  QueryResult(r.question, r.mode, out.answer, out.reasoning_path,
                    AloneHits(r), AloneContext(r, key))

\* C24: with two queries interleaved in any way on the shared engine, against
\* unchanging providers, every query's hit list, subgraph, reasoning path and
\* result are those it gets when it runs alone.
C24_ConcurrentQueriesIndependent ==
    \A p \in Queriers :
       /\ c_pc[p] \in {"extract", "graph", "synth", "respond"} =>
             c_hits[p] = AloneHits(c_request[p])
       /\ c_pc[p] \in {"synth", "respond"} =>
             c_context[p] = AloneContext(c_request[p], api_key)
       /\ c_pc[p] = "respond" =>
             c_outcome[p].reasoning_path
                = AloneResult(c_request[p], api_key).reasoning_path
       /\ c_pc[p] = "done" =>
             c_result[p] = AloneResult(c_request[p], api_key)

\* C24 witness: a vector query and a graph query are in flight at the same
\* time, both past their retrieval stages, holding different hit lists and
\* subgraphs
C24_Witness ==
    /\ c_pc[1] = "respond" /\ c_pc[2] = "synth"
    /\ c_request[1].mode = "vector" /\ c_request[2].mode = "graph"
    /\ Len(c_hits[1]) = 3
    /\ c_hits[2] = <<>>
    /\ c_context[2].entities # <<>>
    /\ c_context[1].entities = <<>>
    /\ c_outcome[1].reasoning_path # <<>>
---------------------------------------------------------------------------
\* Claims about the ingestion pipeline

\* the relationships of the graph that came from document d
EdgesOf(d) == {rel \in graph_edges : rel.chunk_id[1] = d}

\* C21: once merge_extractions has returned, every relationship of the merged
\* result has its source_entity_id and its target_entity_id among the ids of
\* the merged entities, and when the pipeline has written the result the
\* relationship count it reports is the number of relationships the graph
\* holds for the document.
C21_RelationshipsReferToMergedEntities ==
    /\ u_pc \in {"embed", "graph", "entities", "relationships"} =>
          LET ids == {merged.entities[i].id : i \in 1..Len(merged.entities)}
          IN  \A i \in 1..Len(merged.relationships) :
                 /\ merged.relationships[i].source_entity_id \in ids
                 /\ merged.relationships[i].target_entity_id \in ids
    /\ \A d \in DocIds :
          processing_status[d].stage = "complete" =>
             processing_status[d].details.relationships_created
                = Cardinality(EdgesOf(d))

\* the success path of PipelineStage, in order
StagePath == <<"uploaded", "extracting", "embedding", "graphing", "complete">>
Terminal == {"complete", "error"}

\* the recorded stage of d changes in an allowed way in this step
StageMoveAllowed(d) ==
    LET old == processing_status[d]
        new == processing_status'[d]
    IN  /\ old.stage \in Terminal => new = old
        /\ old.stage # new.stage =>
              \/ old.stage = "none" /\ new.stage = "uploaded"
              \/ /\ old.stage \notin Terminal
                 /\ new.stage = "error"
              \/ \E i \in 1..(Len(StagePath) - 1) :
                    /\ old.stage = StagePath[i]
                    /\ new.stage = StagePath[i + 1]
                    /\ new.progress >= old.progress
        /\ old.stage = new.stage => new.progress = old.progress

\* C25: the recorded stage of every document only moves one step forward
\* along uploaded, extracting, embedding, graphing, complete, or from a stage
\* that is not terminal to error; complete and error never change again;
\* progress does not decrease on the success path and is 100 exactly in stage
\* complete; and every uploaded document, whose pipeline was handed to the
\* background tasks, ends in complete or error.
C25_StageProgression ==
    /\ [][\A d \in DocIds : StageMoveAllowed(d)]_vars
    /\ [](\A d \in DocIds :
            processing_status[d].progress = 100
               <=> processing_status[d].stage = "complete")
    /\ \A d \in DocIds :
          (processing_status[d].stage = "uploaded")
             ~> (processing_status[d].stage \in Terminal)

\* C25 witness: one document went through every stage to complete and a
\* second one, uploaded while the first was waiting, ended in error
C25_Witness ==
    /\ processing_status["d1"].stage = "complete"
    /\ processing_status["d1"].progress = 100
    /\ processing_status["d1"].details.chunks_indexed = 2
    /\ processing_status["d2"].stage = "error"
    /\ processing_status["d2"].progress = 0
    /\ u_pc = "idle" /\ pending = <<>>

\* the chunks of document d that the vector store holds
IndexedChunksOf(d) == {id \in vector_index : id[1] = d}

\* C28: a failure while embedding or adding the chunks to the vector store
\* does not move the document to error: its stage becomes graphing, and when
\* no graph write fails it becomes complete with chunks_indexed equal to the
\* number of chunks; a failure in merging the extractions or in a graph write
\* leaves the document in error with progress 0.
C28_OnlyEmbeddingFailureIsSwallowed ==
    /\ [](\A d \in DocIds :
            /\ failures[d] = {"embedding"} =>
                  processing_status[d].stage \in {"graphing", "complete"}
            /\ failures[d] \cap {"merge", "graph"} # {} =>
                  /\ processing_status[d].stage = "error"
                  /\ processing_status[d].progress = 0)
    /\ [][\A d \in DocIds :
             /\ processing_status[d].stage # "complete"
             /\ processing_status'[d].stage = "complete"
             => /\ d = u_doc
                /\ processing_status'[d].details.chunks_indexed
                      = Len(u_chunks)]_vars

\* C28 witness: the pipeline of a document with two chunks lost its
\* embedding step, reported complete with chunks_indexed = 2 while the vector
\* store holds none of its chunks, and the pipeline of a second document
\* ended in error after a failed graph write that followed a failed embedding
C28_Witness ==
    /\ failures["d1"] = {"embedding"}
    /\ processing_status["d1"].stage = "complete"
    /\ processing_status["d1"].details.chunks_indexed = 2
    /\ IndexedChunksOf("d1") = {}
    /\ failures["d2"] = {"embedding", "graph"}
    /\ processing_status["d2"].stage = "error"
---------------------------------------------------------------------------
\* Claims about chunk_text

\* every offset of the text lies in the range of some iteration
Covered ==
    \A p \in 0..(Len(k_text) - 1) :
       \E i \in 1..Len(k_ranges) : k_ranges[i][1] <= p /\ p < k_ranges[i][2]

\* the chunks are numbered 0, 1, ..., n-1, every iteration starts no later
\* than the previous one ended, the ranges of the iterations of a call that
\* has returned cover the stripped text, and every call returns
NumberedCoveringAndReturning ==
    /\ [](\A i \in 1..Len(k_chunks) : k_chunks[i].chunk_index = i - 1)
    /\ [](chunk_index = Len(k_chunks))
    /\ [](\A i \in 1..(Len(k_ranges) - 1) :
            k_ranges[i + 1][1] <= k_ranges[i][2])
    /\ [](k_pc = "returned" => Covered)
    /\ (k_pc = "loop") ~> (k_pc = "returned")

\* C27 as stated: with a positive chunk_size and 0 <= chunk_overlap <=
\* chunk_size // 2, chunk_text returns for every text, every iteration of its
\* loop leaves start at a larger offset than it found, the chunks carry
\* chunk_index 0..n-1 and the ranges of the iterations cover the stripped
\* text.
C27_StartIncreasesEveryIteration ==
    /\ [][k_pc = "loop" => k_start' > k_start]_vars
    /\ NumberedCoveringAndReturning

\* C27 amended: as above, but start grows on every iteration of a call whose
\* stripped text is longer than chunk_overlap, and in every call the
\* iterations start at strictly increasing offsets; on a text of at most
\* chunk_overlap characters the only iteration leaves start at
\* len(text) - chunk_overlap <= 0.
C27_ChunkingTerminatesAndCovers ==
    /\ [][k_pc = "loop" /\ Len(k_text) > chunk_overlap
             => k_start' > k_start]_vars
    /\ [](\A i \in 1..(Len(k_ranges) - 1) :
            k_ranges[i + 1][1] > k_ranges[i][1])
    /\ NumberedCoveringAndReturning

\* C27 witness: a call with a positive overlap has returned after two
\* iterations, the first of which ended at a break before the full chunk
\* size and the second at the end of the text
C27_Witness ==
    /\ k_pc = "returned"
    /\ chunk_overlap > 0
    /\ Len(k_ranges) = 2
    /\ Len(k_chunks) = 2
    /\ k_ranges[1][2] < chunk_size
    /\ k_ranges[2][1] = k_ranges[1][2] - chunk_overlap
    /\ k_ranges[2][2] = Len(k_text)
    /\ k_start > k_ranges[2][1]
====
